---- MODULE Spec2Model ----
(***************************************************************************)
(* Geodesic integration driver of gravitas-core (geodesic/mod.rs,          *)
(* geodesic/integrator.rs, invariants/) as a state machine.                *)
(*                                                                         *)
(* Numbers.  The program computes in IEEE-754 doubles.  Here a double is   *)
(* an integer in a fixed unit, or the value NaN.  Comparisons with NaN are *)
(* false and arithmetic on NaN gives NaN, as in the program.  Units:       *)
(*   radii and masses      1e-3   (r = 3000 is r = 3.0)                     *)
(*   step sizes h          1e-6   (min_step = 10, max_step = 10^7)          *)
(*   the Hamiltonian       1/2    (hamiltonian returns the bracket of      *)
(*                                 invariants/mod.rs:30-36 before the 0.5)  *)
(* integrate is generic over M: Metric.  A metric is a pure function of the *)
(* point; three implementations are sampled.  The size of the embedded     *)
(* 4th/5th order difference of one RKF45 trial is an input of that trial.  *)
(*                                                                         *)
(* Spec is one call of integrate.  StepperSpec is a caller that feeds      *)
(* AdaptiveStepper::step its own return value, with a finer set of error   *)
(* sizes.                                                                  *)
(***************************************************************************)
EXTENDS Integers, Sequences, FiniteSets, TLC

\* ---------------------------------------------------------------- bounds
MaxStepsBound == 3

MaxCalls == 2

\* ---------------------------------------------------------------- doubles
NaN == 2000000000

IsNaN(a) == a = NaN

Abs(a) == IF a < 0 THEN -a ELSE a

Sgn(a) == IF a < 0 THEN -1 ELSE 1

\* f64 + and * : NaN in, NaN out
FAdd(a, b) == IF IsNaN(a) \/ IsNaN(b) THEN NaN ELSE a + b

FMul(a, b) == IF IsNaN(a) \/ IsNaN(b) THEN NaN ELSE a * b

FNeg(a) == IF IsNaN(a) THEN NaN ELSE -a

\* f64::abs
FAbs(a) == IF IsNaN(a) THEN NaN ELSE Abs(a)

\* f64 comparisons: false as soon as one side is NaN
FLt(a, b) == ~IsNaN(a) /\ ~IsNaN(b) /\ a < b

FGt(a, b) == ~IsNaN(a) /\ ~IsNaN(b) /\ a > b

FGe(a, b) == ~IsNaN(a) /\ ~IsNaN(b) /\ a >= b

\* f64::max: a NaN argument is ignored
FMax(a, b) == IF IsNaN(a) THEN b ELSE IF IsNaN(b) THEN a ELSE IF a > b THEN a ELSE b

\* a clamp that lets every value through
FClamp_open(a, lo, hi) == a

\* f64::clamp(lo, hi) with lo <= hi: NaN stays NaN
FClamp(a, lo, hi) == IF IsNaN(a) THEN NaN ELSE IF a < lo THEN lo ELSE IF a > hi THEN hi ELSE a

\* a signum that is 1.0 for every number
FSignum_positive(a) == IF IsNaN(a) THEN NaN ELSE 1

\* f64::signum: 1.0 for +0.0 and positives, -1.0 for negatives, NaN for NaN
FSignum(a) == IF IsNaN(a) THEN NaN ELSE Sgn(a)

\* f64::sqrt on a non-negative value, rounded down to the unit
FSqrt(a) == CHOOSE s \in 0..(IF a < 10000 THEN 100 ELSE 1000) : s * s <= a /\ (s + 1) * (s + 1) > a

\* f64 division by a non-zero value, rounded toward zero
FDiv(a, b) == IF IsNaN(a) \/ IsNaN(b) THEN NaN ELSE Sgn(a) * Sgn(b) * (Abs(a) \div Abs(b))

\* ------------------------------------------------- geodesic/termination.rs
TerminationReason == {"None", "Horizon", "Escape", "MaxSteps", "DiskCrossing"}

\* ------------------------------------------------------- geodesic/mod.rs
\* GeodesicState { x: [f64; 4], p: [f64; 4] }, indices as in the source
GeodesicState(t, r, theta, phi, pt, pr, ptheta, pphi) ==
    [x |-> [i \in 0..3 |-> CASE i = 0 -> t [] i = 1 -> r [] i = 2 -> theta [] OTHER -> phi],
     p |-> [i \in 0..3 |-> CASE i = 0 -> pt [] i = 1 -> pr [] i = 2 -> ptheta [] OTHER -> pphi]]

\* GeodesicState::add_scaled: n.x[i] += k.x[i] * s; n.p[i] += k.p[i] * s
add_scaled(st, k, s) ==
    [x |-> [i \in 0..3 |-> FAdd(st.x[i], FMul(k.x[i], s))],
     p |-> [i \in 0..3 |-> FAdd(st.p[i], FMul(k.p[i], s))]]

\* check_termination with the two tests in the other order
check_termination_escape_first(st, horizon, escape_r) ==
    LET r == st.x[1] IN
    IF FGt(r, escape_r) THEN "Escape"
    ELSE IF FLt(FMul(r, 1000), FMul(horizon, 1001)) THEN "Horizon"
    ELSE "None"

\* GeodesicState::check_termination
check_termination(st, horizon, escape_r) ==
    LET r == st.x[1] IN
    IF FLt(FMul(r, 1000), FMul(horizon, 1001)) THEN "Horizon"
    ELSE IF FGt(r, escape_r) THEN "Escape"
    ELSE "None"

\* ------------------------------------------------------- metric/mod.rs
\* event_horizon taking the dimensionless spin for the geometric spin a
event_horizon_dimensionless(metric) ==
    LET m == metric.mass
        a == FDiv(FMul(metric.spin, 64), 1000)
        disc == FAdd(FMul(m, m), FNeg(FMul(a, a)))
    IN IF FLt(disc, 0) THEN m
       ELSE IF IsNaN(disc) THEN NaN
       ELSE FAdd(m, FSqrt(disc))

\* Metric::event_horizon (provided method); spin is a* in thousandths
event_horizon(metric) ==
    LET m == metric.mass
        a == FDiv(FMul(metric.spin, m), 1000)
        disc == FAdd(FMul(m, m), FNeg(FMul(a, a)))
    IN IF FLt(disc, 0) THEN m
       ELSE IF IsNaN(disc) THEN NaN
       ELSE FAdd(m, FSqrt(disc))

\* A diagonal inverse metric as the 16 row-major components of MetricTensor4
Diagonal(a, b, c, d) ==
    [i \in 0..15 |-> CASE i = 0 -> a [] i = 5 -> b [] i = 10 -> c [] i = 15 -> d [] OTHER -> 0]

\* The inverse metric with every component NaN
NaNTensor == [i \in 0..15 |-> NaN]

\* Metric::contravariant.  integrate is generic over the trait, and a metric is
\* a pure function of the point.  Three implementations are sampled:
\*   flat      diag(-1, 1, 1, 1) everywhere
\*   cross     g^tr # 0 (Kerr-Schild like); g^rr = 0 on r <= 2.002
\*   singular  flat outside, a coordinate singularity (NaN) on r <= 2.002
\* A NaN coordinate gives NaN components in each of them.
contravariant(metric, r, theta) ==
    IF IsNaN(r) \/ IsNaN(theta) THEN NaNTensor
    ELSE CASE metric.chart = "flat" -> Diagonal(-1, 1, 1, 1)
           [] metric.chart = "cross" ->
                 IF r > 2002 THEN [Diagonal(-3, 1, 1, 1) EXCEPT ![1] = 1, ![4] = 1]
                 ELSE [Diagonal(-2, 0, 1, 1) EXCEPT ![1] = 1, ![4] = 1]
           [] OTHER -> IF r > 2002 THEN Diagonal(-1, 1, 1, 1) ELSE NaNTensor

\* Metric::hamiltonian_derivatives: (dH/dr, dH/dtheta), quadratic in p, so NaN
\* as soon as a momentum component is
hamiltonian_derivatives(metric, r, theta, p) ==
    IF IsNaN(r) \/ IsNaN(theta) \/ \E i \in 0..3 : IsNaN(p[i])
    THEN [dh_dr |-> NaN, dh_dtheta |-> NaN]
    ELSE CASE metric.chart = "flat" -> [dh_dr |-> 0, dh_dtheta |-> 0]
           [] metric.chart = "cross" -> [dh_dr |-> 1, dh_dtheta |-> 0]
           [] OTHER -> IF r > 2002 THEN [dh_dr |-> 0, dh_dtheta |-> 0]
                       ELSE [dh_dr |-> NaN, dh_dtheta |-> NaN]

\* ------------------------------------------------------------ metric/kerr.rs
\* The concrete metrics are evaluated in binary fixed point: One is 1.0, a
\* radius, a mass, a momentum or a tensor component q stands for q / One, and
\* the spin a* stays in thousandths.  Every product and quotient is rounded to the
\* nearest unit, as every f64 operation is rounded to the nearest f64.
One == 64

QRound(n, d) == Sgn(n) * ((Abs(n) + d \div 2) \div d)

QMul(x, y) == IF IsNaN(x) \/ IsNaN(y) THEN NaN ELSE QRound(x * y, One)

\* a quotient by 0 has no value in the unit
QDiv(x, y) == IF IsNaN(x) \/ IsNaN(y) \/ y = 0 THEN NaN ELSE QRound(Sgn(y) * x * One, Abs(y))

\* theta.sin().powi(2) and theta.cos().powi(2) at the sampled polar angles
\* pi/6, pi/4 and pi/2 (theta in 1e-3 rad); cos(pi/2)^2 = 3.7e-33 is 0 in the unit
SinSq(theta) == CASE theta = 524 -> One \div 4 [] theta = 785 -> One \div 2
                  [] theta = 1571 -> One [] OTHER -> NaN

CosSq(theta) == CASE theta = 524 -> 3 * (One \div 4) [] theta = 785 -> One \div 2
                  [] theta = 1571 -> 0 [] OTHER -> NaN

\* Kerr::new
Kerr_new(mass_in, spin_in) ==
    [mass |-> mass_in, spin |-> FClamp(spin_in, -1000, 1000), chart |-> "BoyerLindquist"]

\* Kerr::kerr_schild
Kerr_kerr_schild(mass_in, spin_in) ==
    [mass |-> mass_in, spin |-> FClamp(spin_in, -1000, 1000), chart |-> "KerrSchild"]

\* Kerr::a = spin_val * mass_val
Kerr_a(kerr) == IF IsNaN(kerr.spin) \/ IsNaN(kerr.mass) THEN NaN
                ELSE QRound(kerr.spin * kerr.mass, 1000)

\* Kerr::isco, in thousandths of the unit of the mass.  a*, Z1, Z2 and the
\* root are in thousandths; powf(1.0 / 3.0) and sqrt are rounded down to the
\* thousandth, and powf of a negative base is NaN.  |a*| < 1e-6 is a* = 0 here.
Kerr_isco(kerr, orbit) ==
    LET a_star == kerr.spin
        m == kerr.mass
        mul(x, y) == IF IsNaN(x) \/ IsNaN(y) THEN NaN ELSE QRound(x * y, 1000)
        cbrt(q) == IF IsNaN(q) \/ q < 0 THEN NaN
                   ELSE CHOOSE c \in 0..1260 :
                            c ^ 3 <= q * 1000000 /\ (c + 1) ^ 3 > q * 1000000
        sqrt(q) == IF IsNaN(q) \/ q < 0 THEN NaN
                   ELSE CHOOSE c \in 0..4500 : c * c <= q * 1000 /\ (c + 1) * (c + 1) > q * 1000
        a2 == mul(a_star, a_star)
        z1 == FAdd(1000, mul(cbrt(FAdd(1000, FNeg(a2))),
                             FAdd(cbrt(FAdd(1000, a_star)), cbrt(FAdd(1000, FNeg(a_star))))))
        z2 == sqrt(FAdd(FMul(3, a2), mul(z1, z1)))
        sign == IF orbit = "Prograde" THEN -1 ELSE 1
        disc == mul(FAdd(3000, FNeg(z1)), FAdd(FAdd(3000, z1), FMul(2, z2)))
        root == IF FLt(disc, 0) THEN 0 ELSE sqrt(disc)
    IN IF FLt(FAbs(a_star), 1) THEN FMul(m, 6000)
       ELSE FMul(m, FAdd(FAdd(3000, z2), FMul(sign, root)))

\* Kerr::covariant_bl with g_tt = 1 - 2 m r / sigma
covariant_bl_positive_tt(kerr, r, theta) ==
    LET m == kerr.mass
        a == Kerr_a(kerr)
        r2 == QMul(r, r)
        a2 == QMul(a, a)
        sin2 == SinSq(theta)
        sigma == FAdd(r2, QMul(a2, CosSq(theta)))
        delta == FAdd(FAdd(r2, FNeg(QMul(FMul(2, m), r))), a2)
        g_tph == QDiv(FNeg(QMul(QMul(QMul(FMul(2, m), r), a), sin2)), sigma)
    IN [i \in 0..15 |->
          CASE i = 0 -> FAdd(One, FNeg(QDiv(QMul(FMul(2, m), r), sigma)))
            [] i = 3 -> g_tph [] i = 12 -> g_tph
            [] i = 5 -> QDiv(sigma, delta)
            [] i = 10 -> sigma
            [] i = 15 -> QMul(FAdd(FAdd(r2, a2),
                               QDiv(QMul(QMul(QMul(FMul(2, m), r), a2), sin2), sigma)), sin2)
            [] OTHER -> 0]

\* Kerr::covariant_bl
covariant_bl(kerr, r, theta) ==
    LET m == kerr.mass
        a == Kerr_a(kerr)
        r2 == QMul(r, r)
        a2 == QMul(a, a)
        sin2 == SinSq(theta)
        cos2 == CosSq(theta)
        sigma == FAdd(r2, QMul(a2, cos2))
        delta == FAdd(FAdd(r2, FNeg(QMul(FMul(2, m), r))), a2)
        g_tt == FNeg(FAdd(One, FNeg(QDiv(QMul(FMul(2, m), r), sigma))))
        g_rr == QDiv(sigma, delta)
        g_thth == sigma
        g_phph == QMul(FAdd(FAdd(r2, a2),
                            QDiv(QMul(QMul(QMul(FMul(2, m), r), a2), sin2), sigma)), sin2)
        g_tph == QDiv(FNeg(QMul(QMul(QMul(FMul(2, m), r), a), sin2)), sigma)
    IN [i \in 0..15 |-> CASE i = 0 -> g_tt [] i = 3 -> g_tph [] i = 5 -> g_rr
                          [] i = 10 -> g_thth [] i = 12 -> g_tph [] i = 15 -> g_phph
                          [] OTHER -> 0]

\* Kerr::contravariant_bl
contravariant_bl(kerr, r, theta) ==
    LET m == kerr.mass
        a == Kerr_a(kerr)
        r2 == QMul(r, r)
        a2 == QMul(a, a)
        sin2 == SinSq(theta)
        cos2 == CosSq(theta)
        sigma == FAdd(r2, QMul(a2, cos2))
        delta == FAdd(FAdd(r2, FNeg(QMul(FMul(2, m), r))), a2)
        g_tt == FNeg(QDiv(FAdd(QMul(sigma, FAdd(r2, a2)),
                               QMul(QMul(QMul(FMul(2, m), r), a2), sin2)),
                          QMul(delta, sigma)))
        g_rr == QDiv(delta, sigma)
        g_thth == QDiv(One, sigma)
        g_phph == IF FLt(sin2, 1) THEN 0
                  ELSE QDiv(FAdd(delta, FNeg(QMul(a2, sin2))), QMul(QMul(delta, sigma), sin2))
        g_tph == QDiv(FNeg(QMul(QMul(FMul(2, m), r), a)), QMul(delta, sigma))
    IN [i \in 0..15 |-> CASE i = 0 -> g_tt [] i = 3 -> g_tph [] i = 5 -> g_rr
                          [] i = 10 -> g_thth [] i = 12 -> g_tph [] i = 15 -> g_phph
                          [] OTHER -> 0]

\* Kerr::covariant_ks: every written component is its own product
\* 2.0 * h * l[i] * l[j], multiplied from the left
covariant_ks(kerr, r, theta) ==
    LET m == kerr.mass
        a == Kerr_a(kerr)
        r2 == QMul(r, r)
        a2 == QMul(a, a)
        cos2 == CosSq(theta)
        sin2 == FAdd(One, FNeg(cos2))
        sigma == FAdd(r2, QMul(a2, cos2))
        h == QDiv(QMul(m, r), sigma)
        l_r == QDiv(sigma, FAdd(r2, a2))
        l == [i \in 0..3 |-> CASE i = 0 -> One [] i = 1 -> l_r [] i = 2 -> 0
                               [] i = 3 -> QMul(FNeg(a), sin2)]
        eta_tt == -One
        eta_rr == QDiv(sigma, FAdd(r2, a2))
        eta_thth == sigma
        eta_phph == QMul(FAdd(r2, a2), sin2)
        hll(i, j) == QMul(QMul(FMul(2, h), l[i]), l[j])
    IN [i \in 0..15 |-> CASE i = 0 -> FAdd(eta_tt, hll(0, 0))
                          [] i = 1 -> hll(0, 1) [] i = 3 -> hll(0, 3)
                          [] i = 4 -> hll(1, 0)
                          [] i = 5 -> FAdd(eta_rr, hll(1, 1))
                          [] i = 7 -> hll(1, 3)
                          [] i = 10 -> eta_thth
                          [] i = 12 -> hll(3, 0) [] i = 13 -> hll(3, 1)
                          [] i = 15 -> FAdd(eta_phph, hll(3, 3))
                          [] OTHER -> 0]

\* Kerr::contravariant_ks without the r-phi components
contravariant_ks_no_rph(kerr, r, theta) ==
    LET m == kerr.mass
        a == Kerr_a(kerr)
        sin2 == SinSq(theta)
        sigma == FAdd(QMul(r, r), QMul(QMul(a, a), FAdd(One, FNeg(sin2))))
        delta == FAdd(FAdd(QMul(r, r), FNeg(QMul(FMul(2, m), r))), QMul(a, a))
        g_tr == QDiv(QMul(FMul(2, m), r), sigma)
    IN [i \in 0..15 |-> CASE i = 0 -> FNeg(FAdd(One, g_tr))
                          [] i = 1 -> g_tr [] i = 4 -> g_tr
                          [] i = 5 -> QDiv(delta, sigma)
                          [] i = 10 -> QDiv(One, sigma)
                          [] i = 15 -> QDiv(One, QMul(sigma, sin2))
                          [] OTHER -> 0]

\* Kerr::contravariant_ks (sin2 is floored at 1e-12, which is below the unit)
contravariant_ks(kerr, r, theta) ==
    LET m == kerr.mass
        a == Kerr_a(kerr)
        r2 == QMul(r, r)
        a2 == QMul(a, a)
        sin2 == SinSq(theta)
        cos2 == FAdd(One, FNeg(sin2))
        sigma == FAdd(r2, QMul(a2, cos2))
        delta == FAdd(FAdd(r2, FNeg(QMul(FMul(2, m), r))), a2)
        g_tt == FNeg(FAdd(One, QDiv(QMul(FMul(2, m), r), sigma)))
        g_tr == QDiv(QMul(FMul(2, m), r), sigma)
        g_rr == QDiv(delta, sigma)
        g_thth == QDiv(One, sigma)
        g_phph == QDiv(One, QMul(sigma, sin2))
        g_rph == QDiv(a, sigma)
    IN [i \in 0..15 |-> CASE i = 0 -> g_tt [] i = 1 -> g_tr [] i = 4 -> g_tr
                          [] i = 5 -> g_rr [] i = 7 -> g_rph [] i = 10 -> g_thth
                          [] i = 13 -> g_rph [] i = 15 -> g_phph [] OTHER -> 0]

\* impl Metric for Kerr: covariant and contravariant match on self.coords
kerr_covariant(kerr, r, theta) ==
    IF kerr.chart = "BoyerLindquist" THEN covariant_bl(kerr, r, theta)
    ELSE covariant_ks(kerr, r, theta)

kerr_contravariant(kerr, r, theta) ==
    IF kerr.chart = "BoyerLindquist" THEN contravariant_bl(kerr, r, theta)
    ELSE contravariant_ks(kerr, r, theta)

\* --------------------------------------------------- metric/schwarzschild.rs
\* Schwarzschild::new; spin() is the literal 0.0
Schwarzschild_new(mass_in) == [mass |-> mass_in, spin |-> 0, chart |-> "Schwarzschild"]

\* impl Metric for Schwarzschild: covariant
schwarzschild_covariant(bh, r, theta) ==
    LET rs == FMul(2, bh.mass)
        sin2 == SinSq(theta)
        g_tt == FNeg(FAdd(One, FNeg(QDiv(rs, r))))
        g_rr == QDiv(One, FAdd(One, FNeg(QDiv(rs, r))))
        g_thth == QMul(r, r)
        g_phph == QMul(QMul(r, r), sin2)
    IN Diagonal(g_tt, g_rr, g_thth, g_phph)

\* impl Metric for Schwarzschild: contravariant
schwarzschild_contravariant(bh, r, theta) ==
    LET rs == FMul(2, bh.mass)
        sin2 == SinSq(theta)
        g_tt == QDiv(-One, FAdd(One, FNeg(QDiv(rs, r))))
        g_rr == FAdd(One, FNeg(QDiv(rs, r)))
        g_thth == QDiv(One, QMul(r, r))
        g_phph == QDiv(One, QMul(QMul(r, r), sin2))
    IN Diagonal(g_tt, g_rr, g_thth, g_phph)

\* ------------------------------------------------------- metric/minkowski.rs
\* the unit struct Minkowski; mass() and spin() are the literals 0.0
Minkowski == [mass |-> 0, spin |-> 0, chart |-> "Minkowski"]

minkowski_covariant(r, theta) ==
    Diagonal(-One, One, QMul(r, r), QMul(QMul(r, r), SinSq(theta)))

minkowski_contravariant(r, theta) ==
    Diagonal(-One, One, QDiv(One, QMul(r, r)), QDiv(One, QMul(QMul(r, r), SinSq(theta))))

\* ------------------------------------------------- tensor/metric_tensor.rs
\* MetricTensor4::contract over the upper triangle only (nu >= mu)
contract_upper(g, p) ==
    LET term(mu, nu) == IF nu >= mu THEN QMul(QMul(g[mu * 4 + nu], p[mu]), p[nu]) ELSE 0
        row(mu) == FAdd(FAdd(FAdd(term(mu, 0), term(mu, 1)), term(mu, 2)), term(mu, 3))
    IN FAdd(FAdd(FAdd(row(0), row(1)), row(2)), row(3))

\* MetricTensor4::contract: the sum over mu, nu of g[mu*4 + nu] * p[mu] * p[nu]
contract(g, p) ==
    LET term(mu, nu) == QMul(QMul(g[mu * 4 + nu], p[mu]), p[nu])
        row(mu) == FAdd(FAdd(FAdd(term(mu, 0), term(mu, 1)), term(mu, 2)), term(mu, 3))
    IN FAdd(FAdd(FAdd(row(0), row(1)), row(2)), row(3))

\* MetricTensor4::raise_index with the off-diagonal products left out
raise_index_diagonal(g, p_lower) ==
    [mu \in 0..3 |-> FAdd(0, QMul(g[mu * 4 + mu], p_lower[mu]))]

\* MetricTensor4::raise_index: p_upper[mu] starts at 0.0 and gains
\* g[mu*4 + nu] * p_lower[nu] for nu = 0, 1, 2, 3
raise_index(g, p_lower) ==
    [mu \in 0..3 |->
        FAdd(FAdd(FAdd(FAdd(0, QMul(g[mu * 4], p_lower[0])),
                       QMul(g[mu * 4 + 1], p_lower[1])),
                  QMul(g[mu * 4 + 2], p_lower[2])),
             QMul(g[mu * 4 + 3], p_lower[3]))]

\* MetricTensor4::from_array
from_array(components) == [i \in 0..15 |-> components[i]]

\* MetricTensor4::determinant with the second minor added instead of subtracted
determinant_plus_minor01(m) ==
    LET sub(x, y) == FAdd(x, FNeg(y))
        minor00 == FAdd(sub(QMul(m[5], sub(QMul(m[10], m[15]), QMul(m[11], m[14]))),
                            QMul(m[6], sub(QMul(m[9], m[15]), QMul(m[11], m[13])))),
                        QMul(m[7], sub(QMul(m[9], m[14]), QMul(m[10], m[13]))))
        minor01 == FAdd(sub(QMul(m[4], sub(QMul(m[10], m[15]), QMul(m[11], m[14]))),
                            QMul(m[6], sub(QMul(m[8], m[15]), QMul(m[11], m[12])))),
                        QMul(m[7], sub(QMul(m[8], m[14]), QMul(m[10], m[12]))))
        minor02 == FAdd(sub(QMul(m[4], sub(QMul(m[9], m[15]), QMul(m[11], m[13]))),
                            QMul(m[5], sub(QMul(m[8], m[15]), QMul(m[11], m[12])))),
                        QMul(m[7], sub(QMul(m[8], m[13]), QMul(m[9], m[12]))))
        minor03 == FAdd(sub(QMul(m[4], sub(QMul(m[9], m[14]), QMul(m[10], m[13]))),
                            QMul(m[5], sub(QMul(m[8], m[14]), QMul(m[10], m[12])))),
                        QMul(m[6], sub(QMul(m[8], m[13]), QMul(m[9], m[12]))))
    IN sub(FAdd(FAdd(QMul(m[0], minor00), QMul(m[1], minor01)), QMul(m[2], minor02)),
           QMul(m[3], minor03))

\* MetricTensor4::determinant: the expansion by minors along the first row
determinant(m) ==
    LET sub(x, y) == FAdd(x, FNeg(y))
        minor00 == FAdd(sub(QMul(m[5], sub(QMul(m[10], m[15]), QMul(m[11], m[14]))),
                            QMul(m[6], sub(QMul(m[9], m[15]), QMul(m[11], m[13])))),
                        QMul(m[7], sub(QMul(m[9], m[14]), QMul(m[10], m[13]))))
        minor01 == FAdd(sub(QMul(m[4], sub(QMul(m[10], m[15]), QMul(m[11], m[14]))),
                            QMul(m[6], sub(QMul(m[8], m[15]), QMul(m[11], m[12])))),
                        QMul(m[7], sub(QMul(m[8], m[14]), QMul(m[10], m[12]))))
        minor02 == FAdd(sub(QMul(m[4], sub(QMul(m[9], m[15]), QMul(m[11], m[13]))),
                            QMul(m[5], sub(QMul(m[8], m[15]), QMul(m[11], m[12])))),
                        QMul(m[7], sub(QMul(m[8], m[13]), QMul(m[9], m[12]))))
        minor03 == FAdd(sub(QMul(m[4], sub(QMul(m[9], m[14]), QMul(m[10], m[13]))),
                            QMul(m[5], sub(QMul(m[8], m[14]), QMul(m[10], m[12])))),
                        QMul(m[6], sub(QMul(m[8], m[13]), QMul(m[9], m[12]))))
    IN sub(FAdd(sub(QMul(m[0], minor00), QMul(m[1], minor01)), QMul(m[2], minor02)),
           QMul(m[3], minor03))

\* -------------------------------------------------- geodesic/hamiltonian.rs
\* The coordinate velocity of get_state_derivative (dt, dr, dth, dph) from a
\* tensor of the concrete metrics, whose components are in units of 1/One
coordinate_velocity(g, p) ==
    [mu \in 0..3 |->
        CASE mu = 0 -> FAdd(FAdd(QMul(g[0], p[0]), QMul(g[1], p[1])), QMul(g[3], p[3]))
          [] mu = 1 -> FAdd(FAdd(QMul(g[4], p[0]), QMul(g[5], p[1])), QMul(g[7], p[3]))
          [] mu = 2 -> QMul(g[10], p[2])
          [] mu = 3 -> FAdd(FAdd(QMul(g[12], p[0]), QMul(g[13], p[1])), QMul(g[15], p[3]))]

\* get_state_derivative with a rate for p_phi taken from the radial force
get_state_derivative_torque(st, metric) ==
    LET g == contravariant(metric, st.x[1], st.x[2])
        p == st.p
        derivs == hamiltonian_derivatives(metric, st.x[1], st.x[2], p)
    IN GeodesicState(FAdd(FAdd(FMul(g[0], p[0]), FMul(g[1], p[1])), FMul(g[3], p[3])),
                     FAdd(FAdd(FMul(g[4], p[0]), FMul(g[5], p[1])), FMul(g[7], p[3])),
                     FMul(g[10], p[2]),
                     FAdd(FAdd(FMul(g[12], p[0]), FMul(g[13], p[1])), FMul(g[15], p[3])),
                     0, FNeg(derivs.dh_dr), FNeg(derivs.dh_dtheta), FNeg(derivs.dh_dr))

\* get_state_derivative
get_state_derivative(st, metric) ==
    LET r == st.x[1]
        theta == st.x[2]
        g == contravariant(metric, r, theta)
        p == st.p
        dt == FAdd(FAdd(FMul(g[0], p[0]), FMul(g[1], p[1])), FMul(g[3], p[3]))
        dr == FAdd(FAdd(FMul(g[4], p[0]), FMul(g[5], p[1])), FMul(g[7], p[3]))
        dth == FMul(g[10], p[2])
        dph == FAdd(FAdd(FMul(g[12], p[0]), FMul(g[13], p[1])), FMul(g[15], p[3]))
        derivs == hamiltonian_derivatives(metric, r, theta, p)
    IN GeodesicState(dt, dr, dth, dph, 0, FNeg(derivs.dh_dr), FNeg(derivs.dh_dtheta), 0)

\* ------------------------------------------------------ invariants/mod.rs
\* hamiltonian, in units of 1/2
hamiltonian(st, metric) ==
    LET g == contravariant(metric, st.x[1], st.x[2])
        p == st.p
    IN FAdd(FAdd(FAdd(FAdd(FAdd(FAdd(
           FMul(FMul(g[0], p[0]), p[0]),
           FMul(FMul(g[5], p[1]), p[1])),
           FMul(FMul(g[10], p[2]), p[2])),
           FMul(FMul(g[15], p[3]), p[3])),
           FMul(FMul(FMul(2, g[3]), p[0]), p[3])),
           FMul(FMul(FMul(2, g[1]), p[0]), p[1])),
           FMul(FMul(FMul(2, g[7]), p[1]), p[3]))

\* The seven terms of hamiltonian from a tensor of the concrete metrics, whose
\* components are in units of 1/One; in units of 1/2 as hamiltonian
hamiltonian_terms(g, p) ==
    FAdd(FAdd(FAdd(FAdd(FAdd(FAdd(
        QMul(QMul(g[0], p[0]), p[0]),
        QMul(QMul(g[5], p[1]), p[1])),
        QMul(QMul(g[10], p[2]), p[2])),
        QMul(QMul(g[15], p[3]), p[3])),
        QMul(QMul(FMul(2, g[3]), p[0]), p[3])),
        QMul(QMul(FMul(2, g[1]), p[0]), p[1])),
        QMul(QMul(FMul(2, g[7]), p[1]), p[3]))

\* -------------------------------------------- invariants/renormalization.rs
\* renormalize_null choosing the root farther from the current p_r
renormalize_null_far(st, metric) ==
    LET g == contravariant(metric, st.x[1], st.x[2])
        p_t == st.p[0]
        p_r == st.p[1]
        p_th == st.p[2]
        p_ph == st.p[3]
        a_quad == g[5]
        b_quad == FMul(2, FAdd(FMul(g[1], p_t), FMul(g[7], p_ph)))
        c_quad == FAdd(FAdd(FAdd(FMul(FMul(g[0], p_t), p_t),
                                 FMul(FMul(g[10], p_th), p_th)),
                                 FMul(FMul(g[15], p_ph), p_ph)),
                                 FMul(FMul(FMul(2, g[3]), p_t), p_ph))
        discriminant == FAdd(FMul(b_quad, b_quad), FNeg(FMul(FMul(4, a_quad), c_quad)))
        sqrt_d == FSqrt(discriminant)
        sol1 == FDiv(FAdd(FNeg(b_quad), sqrt_d), FMul(2, a_quad))
        sol2 == FDiv(FAdd(FNeg(b_quad), FNeg(sqrt_d)), FMul(2, a_quad))
    IN IF FGt(FAbs(a_quad), 0) /\ FGe(discriminant, 0)
       THEN [st EXCEPT !.p[1] =
                IF FLt(FAbs(FAdd(sol1, FNeg(p_r))), FAbs(FAdd(sol2, FNeg(p_r))))
                THEN sol2 ELSE sol1]
       ELSE st

\* renormalize_null without the test on the discriminant: the real part of the
\* roots is taken when it is negative
renormalize_null_unguarded(st, metric) ==
    LET g == contravariant(metric, st.x[1], st.x[2])
        a_quad == g[5]
        b_quad == FMul(2, FAdd(FMul(g[1], st.p[0]), FMul(g[7], st.p[3])))
    IN IF FGt(FAbs(a_quad), 0)
       THEN [st EXCEPT !.p[1] = FDiv(FNeg(b_quad), FMul(2, a_quad))]
       ELSE st

\* renormalize_null taking (-B + sqrt D) / 2A when the roots are equally near
renormalize_null_tie_first(st, metric) ==
    LET g == contravariant(metric, st.x[1], st.x[2])
        p_t == st.p[0]
        p_ph == st.p[3]
        a_quad == g[5]
        b_quad == FMul(2, FAdd(FMul(g[1], p_t), FMul(g[7], p_ph)))
        c_quad == FAdd(FAdd(FAdd(FMul(FMul(g[0], p_t), p_t),
                                 FMul(FMul(g[10], st.p[2]), st.p[2])),
                                 FMul(FMul(g[15], p_ph), p_ph)),
                                 FMul(FMul(FMul(2, g[3]), p_t), p_ph))
        discriminant == FAdd(FMul(b_quad, b_quad), FNeg(FMul(FMul(4, a_quad), c_quad)))
        sol1 == FDiv(FAdd(FNeg(b_quad), FSqrt(discriminant)), FMul(2, a_quad))
        sol2 == FDiv(FAdd(FNeg(b_quad), FNeg(FSqrt(discriminant))), FMul(2, a_quad))
    IN IF FGt(FAbs(a_quad), 0) /\ FGe(discriminant, 0)
       THEN [st EXCEPT !.p[1] =
                IF FGe(FAbs(FAdd(sol2, FNeg(st.p[1]))), FAbs(FAdd(sol1, FNeg(st.p[1]))))
                THEN sol1 ELSE sol2]
       ELSE st

\* renormalize_null with the polar term g^thth p_th^2 left out of C
renormalize_null_no_polar(st, metric) ==
    LET g == contravariant(metric, st.x[1], st.x[2])
        p_t == st.p[0]
        p_ph == st.p[3]
        a_quad == g[5]
        b_quad == FMul(2, FAdd(FMul(g[1], p_t), FMul(g[7], p_ph)))
        c_quad == FAdd(FAdd(FMul(FMul(g[0], p_t), p_t), FMul(FMul(g[15], p_ph), p_ph)),
                       FMul(FMul(FMul(2, g[3]), p_t), p_ph))
        discriminant == FAdd(FMul(b_quad, b_quad), FNeg(FMul(FMul(4, a_quad), c_quad)))
        sol1 == FDiv(FAdd(FNeg(b_quad), FSqrt(discriminant)), FMul(2, a_quad))
        sol2 == FDiv(FAdd(FNeg(b_quad), FNeg(FSqrt(discriminant))), FMul(2, a_quad))
    IN IF FGt(FAbs(a_quad), 0) /\ FGe(discriminant, 0)
       THEN [st EXCEPT !.p[1] =
                IF FLt(FAbs(FAdd(sol1, FNeg(st.p[1]))), FAbs(FAdd(sol2, FNeg(st.p[1]))))
                THEN sol1 ELSE sol2]
       ELSE st

\* a renormalization that rescales the radial and the polar momentum together
renormalize_null_rescaled(st, metric) ==
    LET g == contravariant(metric, st.x[1], st.x[2])
    IN IF FGt(FAbs(g[5]), 0)
       THEN [st EXCEPT !.p[1] = FMul(2, st.p[1]), !.p[2] = FMul(2, st.p[2])]
       ELSE st

\* renormalize_null; |A| > 1e-12 is A # 0 at this resolution
renormalize_null(st, metric) ==
    LET g == contravariant(metric, st.x[1], st.x[2])
        p_t == st.p[0]
        p_r == st.p[1]
        p_th == st.p[2]
        p_ph == st.p[3]
        a_quad == g[5]
        b_quad == FMul(2, FAdd(FMul(g[1], p_t), FMul(g[7], p_ph)))
        c_quad == FAdd(FAdd(FAdd(FMul(FMul(g[0], p_t), p_t),
                                 FMul(FMul(g[10], p_th), p_th)),
                                 FMul(FMul(g[15], p_ph), p_ph)),
                                 FMul(FMul(FMul(2, g[3]), p_t), p_ph))
        discriminant == FAdd(FMul(b_quad, b_quad), FNeg(FMul(FMul(4, a_quad), c_quad)))
        sqrt_d == FSqrt(discriminant)
        sol1 == FDiv(FAdd(FNeg(b_quad), sqrt_d), FMul(2, a_quad))
        sol2 == FDiv(FAdd(FNeg(b_quad), FNeg(sqrt_d)), FMul(2, a_quad))
    IN IF FGt(FAbs(a_quad), 0) /\ FGe(discriminant, 0)
       THEN [st EXCEPT !.p[1] =
                IF FLt(FAbs(FAdd(sol1, FNeg(p_r))), FAbs(FAdd(sol2, FNeg(p_r))))
                THEN sol1 ELSE sol2]
       ELSE st

\* --------------------------------------------------- geodesic/integrator.rs
\* IntegrationMethod
AdaptiveRKF45 == [kind |-> "AdaptiveRKF45", step_size |-> 0]

RK4(step_size) == [kind |-> "RK4", step_size |-> step_size]

Symplectic(step_size) == [kind |-> "Symplectic", step_size |-> step_size]

\* AdaptiveStepper::new; safety_factor 0.9 is the fraction 9/10
AdaptiveStepperNew(tolerance) ==
    [safety_factor |-> <<9, 10>>, min_step |-> 10, max_step |-> 10000000, tolerance |-> tolerance]

\* The sign of a step: the displacement h * (weighted sum of the stage
\* derivatives) is carried as (sign of h) * (derivative at the incoming state):
\* zero when h = 0, reversed when h < 0, NaN when h is NaN.
Direction(h) == IF IsNaN(h) THEN NaN ELSE IF h = 0 THEN 0 ELSE Sgn(h)

\* step_rk4: state.x[i] += (h/6)(k1 + 2 k2 + 2 k3 + k4).x[i], same for p
step_rk4(st, metric, h) == add_scaled(st, get_state_derivative(st, metric), Direction(h))

\* step_symplectic: state.x[i] += d_final.x[i] * h, same for p
step_symplectic(st, metric, h) == add_scaled(st, get_state_derivative(st, metric), Direction(h))

\* adaptive_rkf45_step: (5th order state, error estimate).  e.x and e.p are the
\* sizes of the embedded 4th/5th order difference |h * sum (b5_j - b4_j) k_j|
\* of this trial in the coordinates and in the momenta; the estimate is the
\* f64::max over the four coordinate components k.x[i], which skips NaN.
adaptive_rkf45_step(st, metric, h, e) ==
    LET k == get_state_derivative(st, metric)
        err(i) == IF IsNaN(h) \/ IsNaN(k.x[i]) THEN NaN ELSE IF h = 0 THEN 0 ELSE e.x
    IN [state |-> add_scaled(st, k, Direction(h)),
        error |-> FMax(FMax(FMax(FMax(0, FAbs(err(0))), FAbs(err(1))), FAbs(err(2))), FAbs(err(3)))]

\* The whole root a with a^e = q, for the sampled ratios (powf is exact there)
IntRoot(q, e) == CHOOSE a \in 1..10 : a ^ e = q

\* error_ratio of AdaptiveStepper::step: 0 when the estimate is 0, else
\* estimate / tolerance, as a fraction n/d (d > 0), +inf or NaN
error_ratio(error_estimate, tolerance) ==
    IF error_estimate = 0 THEN [k |-> "num", n |-> 0, d |-> 1]
    ELSE IF IsNaN(tolerance) THEN [k |-> "nan", n |-> 0, d |-> 1]
    ELSE IF tolerance = 0 THEN [k |-> "inf", n |-> 0, d |-> 1]
    ELSE [k |-> "num", n |-> Sgn(tolerance) * error_estimate, d |-> Abs(tolerance)]

\* error_ratio <= 1.0
RatioLeOne(ratio) == ratio.k = "num" /\ ratio.n <= ratio.d

\* growth.min(5.0), growth = 5.0 if ratio < 1e-4 else safety * ratio^(-0.2)
growth_min5(ratio, safety) ==
    IF ratio.n <= 0 \/ ratio.n * 10000 < ratio.d THEN <<5, 1>>
    ELSE LET a == IntRoot(ratio.d \div ratio.n, 5)
         IN IF safety[1] * a > 5 * safety[2] THEN <<5, 1>> ELSE <<safety[1] * a, safety[2]>>

\* a rejection that leaves h as it is
shrink_none(ratio, safety) == <<1, 1>>

\* shrink.max(0.1), shrink = safety * ratio^(-0.25); NaN.max(0.1) = 0.1
shrink_max01(ratio, safety) ==
    IF ratio.k = "nan" \/ ratio.k = "inf" THEN <<1, 10>>
    ELSE LET b == IntRoot(ratio.n \div ratio.d, 4)
         IN IF safety[1] * 10 < safety[2] * b THEN <<1, 10>> ELSE <<safety[1], safety[2] * b>>

\* h * factor for a positive fraction factor, rounded toward zero.  The f64
\* product of a non-zero h is not zero and has the sign of h: one that is under
\* the unit is carried as one unit.
HMul(h, f) ==
    IF IsNaN(h) THEN NaN
    ELSE IF h = 0 THEN 0
    ELSE IF (Abs(h) * f[1]) \div f[2] = 0 THEN Sgn(h)
    ELSE Sgn(h) * ((Abs(h) * f[1]) \div f[2])

\* ------------------------------------------------------------------ inputs
\* IntegrationOptions.  tolerance and initial_step are read by the adaptive
\* method only, so the fixed-step methods are sampled with the defaults.
ToleranceSamples == {100000, 0, -100000}

InitialStepSamples == {0, 5, 1000000, -1000000, NaN}

MethodSamples == {AdaptiveRKF45, RK4(10000), Symplectic(10000)}

OptionsSamples ==
    { o \in [method : MethodSamples,
             tolerance : ToleranceSamples,
             initial_step : InitialStepSamples,
             max_steps : 0..MaxStepsBound,
             escape_radius : {2007, 1500},
             renormalize_interval : 0..2,
             record_path : BOOLEAN] :
        /\ o.method.kind # "AdaptiveRKF45" => o.tolerance = 100000 /\ o.initial_step = 1000000
        /\ o.tolerance # 100000 => o.initial_step = 1000000
        /\ o.escape_radius = 1500 => o.max_steps = 1 }

\* Embedded error sizes of one RKF45 trial, in the unit that makes the
\* positive tolerance 100000: ratios 0, 1 and 10^4 ...
ErrorSamples == {0, 100000, 1000000000}

\* ... and 0, 1e-5, 1/32, 1, 16 and 10^4 for the stepper on its own
StepperErrorSamples == {0, 3125, 100000, 1600000, 1000000000}

\* h_try of the first call: zero, under min_step, inside the range and
\* reversed, beyond max_step, NaN
HTrySamples == {0, 5, -1000000, 20000000, NaN}

\* Initial photon states: inside 1.001 r+, between the two radii (ingoing,
\* outgoing, two steps from the escape radius), beyond the escape radius; with
\* a NaN energy or radial momentum.  The outgoing p_r = 2 is off the null
\* cone of each sampled metric.
InitialSamples ==
    { GeodesicState(0, 2001, 1571, 0, -1, -1, 0, 0),
      GeodesicState(0, 2003, 1571, 0, -1, -1, 0, 0),
      GeodesicState(0, 2003, 1571, 0, -1, 2, 0, 0),
      GeodesicState(0, 2005, 1571, 0, -1, 2, 0, 0),
      GeodesicState(0, 2008, 1571, 0, -1, 2, 0, 0),
      GeodesicState(0, 2003, 1571, 0, NaN, -1, 0, 0),
      GeodesicState(0, 2003, 1571, 0, -1, NaN, 0, 0) }

\* The metric value: mass M = 1.0, spin a* = 0 (r+ = 2.0)
MetricValueSamples == { [mass |-> 1000, spin |-> 0, chart |-> c] : c \in {"flat", "cross", "singular"} }

\* ------------------------------------------------------------------- state
VARIABLES
    initial,      \* integrate's argument initial
    metric,       \* integrate's argument metric (mass, spin)
    options,      \* integrate's argument options
    pc,           \* position in integrate
    state,        \* let mut state
    stepper,      \* let mut stepper
    h,            \* let mut h
    horizon,      \* let horizon
    max_drift,    \* let mut max_drift
    steps,        \* let mut steps
    path,         \* let mut path: Option<Vec<GeodesicState>>
    iters,        \* iterations of `for _ in 0..options.max_steps` started
    hs,           \* AdaptiveStepper::step's local h
    traj,         \* the returned Trajectory, << >> before the return
    tested,       \* history: the states check_termination was evaluated on
    renorm_log,   \* history: steps completed at each renormalize_null call
    call,         \* history of the current AdaptiveStepper::step call
    probe,        \* the arguments of the metric functions under evaluation
    answer,       \* what the metric functions returned for probe
    parked        \* the arguments and locals of a second, concurrent integrate call

vars == <<initial, metric, options, pc, state, stepper, h, horizon, max_drift, steps,
          path, iters, hs, traj, tested, renorm_log, call, probe, answer, parked>>

\* what no step of integrate, of the stepper or of renormalize_null writes
inputs == <<initial, metric, options, probe, answer, parked>>

NoParked == [who |-> 0]

NoProbe == [kind |-> "none"]

NoAnswer == [covariant |-> << >>, contravariant |-> << >>, event_horizon |-> << >>,
             h_bl |-> << >>, h_ks |-> << >>, rkf45 |-> << >>]

NoPath == [some |-> FALSE, v |-> << >>]

NoCall == [h_try |-> 0, trials |-> 0, rejects |-> 0, commits |-> 0, forced |-> FALSE, used |-> 0]

Init ==
    /\ initial \in InitialSamples
    /\ metric \in MetricValueSamples
    /\ options \in OptionsSamples
    /\ pc = "call"
    /\ state = initial
    /\ stepper = AdaptiveStepperNew(options.tolerance)
    /\ h = options.initial_step
    /\ horizon = 0
    /\ max_drift = 0
    /\ steps = 0
    /\ path = NoPath
    /\ iters = 0
    /\ hs = 0
    /\ traj = << >>
    /\ tested = {}
    /\ renorm_log = << >>
    /\ call = NoCall
    /\ probe = NoProbe
    /\ answer = NoAnswer
    /\ parked = NoParked

\* The Trajectory built by either return of integrate
Trajectory(termination) ==
    [final_state |-> state, termination |-> termination, steps_taken |-> steps,
     max_hamiltonian_drift |-> max_drift, path |-> path]

\* Begin for a driver whose loop steps first and tests afterwards
Begin_step_first ==
    /\ pc = "call"
    /\ state' = renormalize_null(initial, metric)
    /\ stepper' = AdaptiveStepperNew(options.tolerance)
    /\ h' = options.initial_step
    /\ horizon' = event_horizon(metric)
    /\ max_drift' = 0
    /\ steps' = 0
    /\ path' = IF options.record_path THEN [some |-> TRUE, v |-> <<initial>>] ELSE NoPath
    /\ renorm_log' = <<0>>
    /\ tested' = {}
    /\ pc' = "step"
    /\ UNCHANGED <<inputs, iters, hs, traj, call>>

\* Begin for a driver that starts the path after the initial renormalization
Begin_path_after_renormalize ==
    /\ pc = "call"
    /\ state' = renormalize_null(initial, metric)
    /\ stepper' = AdaptiveStepperNew(options.tolerance)
    /\ h' = options.initial_step
    /\ horizon' = event_horizon(metric)
    /\ max_drift' = 0
    /\ steps' = 0
    /\ path' = IF options.record_path
               THEN [some |-> TRUE, v |-> <<renormalize_null(initial, metric)>>]
               ELSE NoPath
    /\ renorm_log' = <<0>>
    /\ tested' = {}
    /\ pc' = "loop"
    /\ UNCHANGED <<inputs, iters, hs, traj, call>>

\* mod.rs:151-166: the locals, the path and the renormalization at the start
Begin ==
    /\ pc = "call"
    /\ state' = renormalize_null(initial, metric)
    /\ stepper' = AdaptiveStepperNew(options.tolerance)
    /\ h' = options.initial_step
    /\ horizon' = event_horizon(metric)
    /\ max_drift' = 0
    /\ steps' = 0
    /\ path' = IF options.record_path THEN [some |-> TRUE, v |-> <<initial>>] ELSE NoPath
    /\ renorm_log' = <<0>>
    /\ tested' = {}
    /\ pc' = "loop"
    /\ UNCHANGED <<inputs, iters, hs, traj, call>>

\* NextIteration for the inclusive range 0..=max_steps
NextIteration_inclusive ==
    /\ pc = "loop"
    /\ iters <= options.max_steps
    /\ iters' = iters + 1
    /\ pc' = "check"
    /\ UNCHANGED <<inputs, state, stepper, h, horizon, max_drift, steps, path, hs, traj,
                   tested, renorm_log, call>>

\* mod.rs:168: the range 0..max_steps yields another iteration
NextIteration ==
    /\ pc = "loop"
    /\ iters < options.max_steps
    /\ iters' = iters + 1
    /\ pc' = "check"
    /\ UNCHANGED <<inputs, state, stepper, h, horizon, max_drift, steps, path, hs, traj,
                   tested, renorm_log, call>>

\* FallThrough for a driver that reports no reason when the range is exhausted
FallThrough_none ==
    /\ pc = "loop"
    /\ iters >= options.max_steps
    /\ traj' = <<Trajectory("None")>>
    /\ pc' = "returned"
    /\ UNCHANGED <<inputs, state, stepper, h, horizon, max_drift, steps, path, iters, hs,
                   tested, renorm_log, call>>

\* mod.rs:212-218: the range is exhausted
FallThrough ==
    /\ pc = "loop"
    /\ iters >= options.max_steps
    /\ traj' = <<Trajectory("MaxSteps")>>
    /\ pc' = "returned"
    /\ UNCHANGED <<inputs, state, stepper, h, horizon, max_drift, steps, path, iters, hs,
                   tested, renorm_log, call>>

\* mod.rs:170-179: the test fires and integrate returns
TerminationFires ==
    /\ pc = "check"
    /\ LET term == check_termination(state, horizon, options.escape_radius)
       IN /\ term # "None"
          /\ traj' = <<Trajectory(term)>>
    /\ tested' = tested \cup {state}
    /\ pc' = "returned"
    /\ UNCHANGED <<inputs, state, stepper, h, horizon, max_drift, steps, path, iters, hs,
                   renorm_log, call>>

\* mod.rs:170-171: the test does not fire
TerminationNone ==
    /\ pc = "check"
    /\ check_termination(state, horizon, options.escape_radius) = "None"
    /\ tested' = tested \cup {state}
    /\ pc' = "step"
    /\ UNCHANGED <<inputs, state, stepper, h, horizon, max_drift, steps, path, iters, hs,
                   traj, renorm_log, call>>

\* mod.rs:186-188
StepRK4 ==
    /\ pc = "step"
    /\ options.method.kind = "RK4"
    /\ state' = step_rk4(state, metric, options.method.step_size)
    /\ pc' = "post"
    /\ UNCHANGED <<inputs, stepper, h, horizon, max_drift, steps, path, iters, hs, traj,
                   tested, renorm_log, call>>

\* mod.rs:189-191
StepSymplectic ==
    /\ pc = "step"
    /\ options.method.kind = "Symplectic"
    /\ state' = step_symplectic(state, metric, options.method.step_size)
    /\ pc' = "post"
    /\ UNCHANGED <<inputs, stepper, h, horizon, max_drift, steps, path, iters, hs, traj,
                   tested, renorm_log, call>>

\* mod.rs:183-185 and integrator.rs:78: stepper.step is entered, h_try is clamped
StepperEnter ==
    /\ pc = "step"
    /\ options.method.kind = "AdaptiveRKF45"
    /\ hs' = FClamp(h, -stepper.max_step, stepper.max_step)
    /\ call' = [NoCall EXCEPT !.h_try = h]
    /\ pc' = "trial"
    /\ UNCHANGED <<inputs, state, stepper, h, horizon, max_drift, steps, path, iters, traj,
                   tested, renorm_log>>

\* integrator.rs:81-99: a trial whose error ratio is <= 1 is committed
TrialAcceptOn(errors) ==
    /\ pc = "trial"
    /\ \E e \in errors :
          LET trial == adaptive_rkf45_step(state, metric, hs, [x |-> e, p |-> e])
              ratio == error_ratio(trial.error, stepper.tolerance)
              next_h == HMul(hs, growth_min5(ratio, stepper.safety_factor))
          IN /\ RatioLeOne(ratio)
             /\ state' = trial.state
             /\ h' = FClamp(next_h, -stepper.max_step, stepper.max_step)
    /\ call' = [call EXCEPT !.trials = @ + 1, !.commits = @ + 1, !.used = hs]
    /\ pc' = "post"
    /\ UNCHANGED <<inputs, stepper, horizon, max_drift, steps, path, iters, hs, traj,
                   tested, renorm_log>>

\* integrator.rs:100-109: a rejected trial shrinks h and the loop goes on
TrialRejectOn(errors) ==
    /\ pc = "trial"
    /\ \E e \in errors :
          LET trial == adaptive_rkf45_step(state, metric, hs, [x |-> e, p |-> e])
              ratio == error_ratio(trial.error, stepper.tolerance)
              shrunk == HMul(hs, shrink_max01(ratio, stepper.safety_factor))
          IN /\ ~RatioLeOne(ratio)
             /\ ~FLt(FAbs(shrunk), stepper.min_step)
             /\ hs' = shrunk
    /\ call' = [call EXCEPT !.trials = @ + 1, !.rejects = @ + 1]
    /\ UNCHANGED <<inputs, pc, state, stepper, h, horizon, max_drift, steps, path, iters,
                   traj, tested, renorm_log>>

\* integrator.rs:100-108: a rejected trial brings |h| under min_step and one
\* step of min_step * signum(h) is forced
TrialForceOn(errors) ==
    /\ pc = "trial"
    /\ \E e \in errors :
          LET trial == adaptive_rkf45_step(state, metric, hs, [x |-> e, p |-> e])
              ratio == error_ratio(trial.error, stepper.tolerance)
              shrunk == HMul(hs, shrink_max01(ratio, stepper.safety_factor))
              h_min == FMul(stepper.min_step, FSignum(shrunk))
          IN /\ ~RatioLeOne(ratio)
             /\ FLt(FAbs(shrunk), stepper.min_step)
             /\ hs' = shrunk
             /\ \E ef \in errors :
                   state' = adaptive_rkf45_step(state, metric, h_min, [x |-> ef, p |-> ef]).state
             /\ h' = h_min
             /\ call' = [call EXCEPT !.trials = @ + 1, !.rejects = @ + 1, !.commits = @ + 1,
                                     !.forced = TRUE, !.used = h_min]
    /\ pc' = "post"
    /\ UNCHANGED <<inputs, stepper, horizon, max_drift, steps, path, iters, traj,
                   tested, renorm_log>>

\* a rejected trial that writes its result to the state before the retry
TrialReject_commits ==
    /\ pc = "trial"
    /\ \E e \in ErrorSamples :
          LET trial == adaptive_rkf45_step(state, metric, hs, [x |-> e, p |-> e])
              ratio == error_ratio(trial.error, stepper.tolerance)
              shrunk == HMul(hs, shrink_max01(ratio, stepper.safety_factor))
          IN /\ ~RatioLeOne(ratio)
             /\ ~FLt(FAbs(shrunk), stepper.min_step)
             /\ hs' = shrunk
             /\ state' = trial.state
    /\ call' = [call EXCEPT !.trials = @ + 1, !.rejects = @ + 1]
    /\ UNCHANGED <<inputs, pc, stepper, h, horizon, max_drift, steps, path, iters,
                   traj, tested, renorm_log>>

TrialAccept == TrialAcceptOn(ErrorSamples)

TrialReject == TrialRejectOn(ErrorSamples)

TrialForce == TrialForceOn(ErrorSamples)

\* mod.rs:195: steps % options.renormalize_interval with a zero divisor panics
RemainderByZero ==
    /\ pc = "post"
    /\ options.renormalize_interval = 0
    /\ pc' = "panicked"
    /\ UNCHANGED <<inputs, state, stepper, h, horizon, max_drift, steps, path, iters, hs,
                   traj, tested, renorm_log, call>>

\* the test on the number of steps counting the one just taken
RenormalizeDue_counting(n, interval) == (n + 1) % interval = 0

\* steps % options.renormalize_interval == 0
RenormalizeDue(n, interval) == n % interval = 0

\* a drift update that lets a NaN measurement through
drift_update_nan(h_val, drift) == IF IsNaN(h_val) \/ h_val > drift THEN h_val ELSE drift

\* a drift update that keeps the last measurement
drift_update_last(h_val, drift) == h_val

\* mod.rs:200-203: if h_val > max_drift { max_drift = h_val }
drift_update(h_val, drift) == IF FGt(h_val, drift) THEN h_val ELSE drift

\* mod.rs:194-209: periodic renormalization, drift, step count, path
PostStep ==
    /\ pc = "post"
    /\ options.renormalize_interval # 0
    /\    LET due == RenormalizeDue(steps, options.renormalize_interval)
              st == IF due THEN renormalize_null(state, metric) ELSE state
              h_val == FAbs(hamiltonian(st, metric))
          IN /\ state' = st
             /\ renorm_log' = IF due THEN Append(renorm_log, steps + 1) ELSE renorm_log
             /\ max_drift' = drift_update(h_val, max_drift)
             /\ path' = IF path.some THEN [path EXCEPT !.v = Append(@, st)] ELSE path
    /\ steps' = steps + 1
    /\ pc' = "loop"
    /\ UNCHANGED <<inputs, stepper, h, horizon, iters, hs, traj, tested, call>>

Next ==
    \/ Begin
    \/ NextIteration
    \/ FallThrough
    \/ TerminationFires
    \/ TerminationNone
    \/ StepRK4
    \/ StepSymplectic
    \/ StepperEnter
    \/ TrialAccept
    \/ TrialReject
    \/ TrialForce
    \/ RemainderByZero
    \/ PostStep

Spec == Init /\ [][Next]_vars

\* ------------------------------------------- AdaptiveStepper::step on its own
\* A caller as mod.rs:184: h = stepper.step(&mut state, metric, h), MaxCalls times
StepperOptionsSamples ==
    { o \in [method : {AdaptiveRKF45},
             tolerance : ToleranceSamples,
             initial_step : HTrySamples,
             max_steps : {MaxCalls},
             escape_radius : {2007},
             renormalize_interval : {1},
             record_path : {FALSE}] :
        o.tolerance # 100000 => o.initial_step = -1000000 }

StepperInit ==
    /\ initial = GeodesicState(0, 2003, 1571, 0, -1, -1, 0, 0)
    /\ metric \in {m \in MetricValueSamples : m.chart # "cross"}
    /\ options \in StepperOptionsSamples
    /\ pc = "step"
    /\ state = initial
    /\ stepper = AdaptiveStepperNew(options.tolerance)
    /\ h = options.initial_step
    /\ horizon = event_horizon(metric)
    /\ max_drift = 0
    /\ steps = 0
    /\ path = NoPath
    /\ iters = 1
    /\ hs = 0
    /\ traj = << >>
    /\ tested = {}
    /\ renorm_log = << >>
    /\ call = NoCall
    /\ probe = NoProbe
    /\ answer = NoAnswer
    /\ parked = NoParked

StepperAccept == TrialAcceptOn(StepperErrorSamples)

StepperReject == TrialRejectOn(StepperErrorSamples)

StepperForce == TrialForceOn(StepperErrorSamples)

\* the caller passes the returned step size to the next call
StepperCallAgain ==
    /\ pc = "post"
    /\ iters < options.max_steps
    /\ iters' = iters + 1
    /\ pc' = "step"
    /\ UNCHANGED <<inputs, state, stepper, h, horizon, max_drift, steps, path, hs, traj,
                   tested, renorm_log, call>>

StepperNext ==
    \/ StepperEnter
    \/ StepperAccept
    \/ StepperReject
    \/ StepperForce
    \/ StepperCallAgain

StepperSpec == StepperInit /\ [][StepperNext]_vars

\* ------------------------------------------- integrate as one function call
\* The loop of integrate from its i-th iteration on, for the fixed-step
\* methods and a non-zero renormalize_interval; run is the record of the
\* locals state, max_drift, steps and path.
RECURSIVE integrate_loop(_, _, _, _)
integrate_loop(run, met, opts, i) ==
    LET term == check_termination(run.state, event_horizon(met), opts.escape_radius)
        stepped == IF opts.method.kind = "RK4"
                   THEN step_rk4(run.state, met, opts.method.step_size)
                   ELSE step_symplectic(run.state, met, opts.method.step_size)
        st == IF RenormalizeDue(run.steps, opts.renormalize_interval)
              THEN renormalize_null(stepped, met) ELSE stepped
        result(reason) == [final_state |-> run.state, termination |-> reason,
                           steps_taken |-> run.steps,
                           max_hamiltonian_drift |-> run.max_drift, path |-> run.path]
    IN IF i >= opts.max_steps THEN result("MaxSteps")
       ELSE IF term # "None" THEN result(term)
       ELSE integrate_loop(
               [state |-> st,
                max_drift |-> drift_update(FAbs(hamiltonian(st, met)), run.max_drift),
                steps |-> run.steps + 1,
                path |-> IF run.path.some THEN [run.path EXCEPT !.v = Append(@, st)]
                         ELSE run.path],
               met, opts, i + 1)

\* integrate(initial, metric, options), the Trajectory of one call run alone
integrate(init, met, opts) ==
    integrate_loop([state |-> renormalize_null(init, met), max_drift |-> 0, steps |-> 0,
                    path |-> IF opts.record_path THEN [some |-> TRUE, v |-> <<init>>]
                             ELSE NoPath],
                   met, opts, 0)

\* ------------------------------------- two integrate calls sharing a metric
\* iterations allowed to each of the two concurrent calls
ConcurrentSteps == 2

ConcurrentInitialSamples ==
    {GeodesicState(0, 2003, 1571, 0, -1, 2, 0, 0), GeodesicState(0, 2005, 1571, 0, -1, 2, 0, 0),
     GeodesicState(0, 2003, 1571, 0, -1, -1, 0, 0)}

ConcurrentOptionsSamples ==
    {o \in OptionsSamples : /\ o.method.kind # "AdaptiveRKF45"
                            /\ o.max_steps = ConcurrentSteps
                            /\ o.renormalize_interval \in {1, 2}
                            /\ o.record_path}

\* The arguments and locals of the running call, as they are parked when the
\* other call is scheduled
Context(id) ==
    [who |-> id, initial |-> initial, options |-> options, pc |-> pc, state |-> state,
     stepper |-> stepper, h |-> h, horizon |-> horizon, max_drift |-> max_drift,
     steps |-> steps, path |-> path, iters |-> iters, hs |-> hs, traj |-> traj,
     tested |-> tested, renorm_log |-> renorm_log, call |-> call]

ConcurrentInit ==
    /\ initial \in ConcurrentInitialSamples
    /\ metric \in MetricValueSamples
    /\ options \in ConcurrentOptionsSamples
    /\ pc = "call"
    /\ state = initial
    /\ stepper = AdaptiveStepperNew(options.tolerance)
    /\ h = options.initial_step
    /\ horizon = 0
    /\ max_drift = 0
    /\ steps = 0
    /\ path = NoPath
    /\ iters = 0
    /\ hs = 0
    /\ traj = << >>
    /\ tested = {}
    /\ renorm_log = << >>
    /\ call = NoCall
    /\ probe = NoProbe
    /\ answer = NoAnswer
    /\ \E init2 \in ConcurrentInitialSamples :
       \E opts2 \in {o \in ConcurrentOptionsSamples : o.renormalize_interval = 1} :
          parked = [who |-> 2, initial |-> init2, options |-> opts2, pc |-> "call",
                    state |-> init2, stepper |-> AdaptiveStepperNew(opts2.tolerance),
                    h |-> opts2.initial_step, horizon |-> 0, max_drift |-> 0, steps |-> 0,
                    path |-> NoPath, iters |-> 0, hs |-> 0, traj |-> << >>, tested |-> {},
                    renorm_log |-> << >>, call |-> NoCall]

\* a scheduler under which max_drift is one cell that both calls use
Switch_shared_drift ==
    /\ parked.pc \notin {"returned", "panicked"}
    /\ parked' = Context(3 - parked.who)
    /\ initial' = parked.initial /\ options' = parked.options /\ pc' = parked.pc
    /\ state' = parked.state /\ stepper' = parked.stepper /\ h' = parked.h
    /\ horizon' = parked.horizon /\ steps' = parked.steps
    /\ path' = parked.path /\ iters' = parked.iters /\ hs' = parked.hs
    /\ traj' = parked.traj /\ tested' = parked.tested /\ renorm_log' = parked.renorm_log
    /\ call' = parked.call
    /\ UNCHANGED <<metric, probe, answer, max_drift>>

\* The scheduler runs the other call: every argument and local is the call's
\* own (references to the caller's values, and `let` bindings on its stack);
\* only the metric is shared
Switch ==
    /\ parked.pc \notin {"returned", "panicked"}
    /\ parked' = Context(3 - parked.who)
    /\ initial' = parked.initial /\ options' = parked.options /\ pc' = parked.pc
    /\ state' = parked.state /\ stepper' = parked.stepper /\ h' = parked.h
    /\ horizon' = parked.horizon /\ max_drift' = parked.max_drift /\ steps' = parked.steps
    /\ path' = parked.path /\ iters' = parked.iters /\ hs' = parked.hs
    /\ traj' = parked.traj /\ tested' = parked.tested /\ renorm_log' = parked.renorm_log
    /\ call' = parked.call
    /\ UNCHANGED <<metric, probe, answer>>

ConcurrentNext ==
    \/ Begin
    \/ NextIteration
    \/ FallThrough
    \/ TerminationFires
    \/ TerminationNone
    \/ StepRK4
    \/ StepSymplectic
    \/ PostStep
    \/ Switch

ConcurrentSpec == ConcurrentInit /\ [][ConcurrentNext]_vars

\* ------------------------------------------------ renormalize_null on its own
\* number of successive calls of renormalize_null on one state
RenormCalls == 2

\* States to renormalize: on and off the null cone, with p_theta large enough
\* for a negative discriminant, in and outside the region where the cross
\* chart has g^rr = 0, and with a NaN p_r
RenormStateSamples ==
    { GeodesicState(0, r, 1571, 0, pt, pr, pth, 0) :
        r \in {2001, 2003}, pt \in {-1, -2}, pr \in {-1, 0, 2, NaN}, pth \in {0, 1, 3} }

RenormInit ==
    /\ initial \in RenormStateSamples
    /\ metric \in MetricValueSamples
    /\ options \in {o \in OptionsSamples : o.method.kind = "RK4" /\ o.max_steps = 1
                        /\ o.renormalize_interval = 1 /\ o.record_path
                        /\ o.escape_radius = 2007}
    /\ pc = "renorm"
    /\ state = initial
    /\ stepper = AdaptiveStepperNew(options.tolerance)
    /\ h = options.initial_step
    /\ horizon = event_horizon(metric)
    /\ max_drift = 0
    /\ steps = 0
    /\ path = [some |-> TRUE, v |-> <<initial>>]
    /\ iters = 0
    /\ hs = 0
    /\ traj = << >>
    /\ tested = {}
    /\ renorm_log = << >>
    /\ call = NoCall
    /\ probe = NoProbe
    /\ answer = NoAnswer
    /\ parked = NoParked

\* one more call of renormalize_null(&mut state, metric); path keeps the results
RenormalizeAgain ==
    /\ pc = "renorm"
    /\ steps < RenormCalls
    /\ state' = renormalize_null(state, metric)
    /\ path' = [path EXCEPT !.v = Append(@, renormalize_null(state, metric))]
    /\ steps' = steps + 1
    /\ UNCHANGED <<inputs, pc, stepper, h, horizon, max_drift, iters, hs, traj, tested,
                   renorm_log, call>>

RenormSpec == RenormInit /\ [][RenormalizeAgain]_vars

\* ---------------------------------------------- the metric functions alone
MassSamples == {0, One, 2 * One}

\* requested spins a* in thousandths: in range, at the bounds, out of range, NaN
SpinSamples == {-2000, -1000, -500, 0, 500, 1000, 1500, NaN}

RadiusSamples == {2 * One, 3 * One, 4 * One, 5 * One, 8 * One, 10 * One, 20 * One}

ThetaSamples == {524, 785, 1571}

Momentum(p_t, p_r, p_th, p_ph) ==
    [i \in 0..3 |-> CASE i = 0 -> p_t [] i = 1 -> p_r [] i = 2 -> p_th [] i = 3 -> p_ph]

MomentumSamples ==
    { Momentum(p_t, p_r, p_th, p_ph) :
        p_t \in {-One, -2 * One}, p_r \in {0, One}, p_th \in {0, One},
        p_ph \in {0, 2 * One, -One} }

ProbeSamples ==
    { q \in [kind : {"Kerr::new", "Kerr::kerr_schild", "Schwarzschild::new", "Minkowski"},
             mass : MassSamples, spin : SpinSamples, r : RadiusSamples,
             theta : ThetaSamples, p : MomentumSamples] :
        /\ q.kind = "Minkowski" => q.mass = 0
        /\ q.kind \in {"Schwarzschild::new", "Minkowski"} => q.spin = 0
        /\ (q.kind # "Kerr::new" \/ q.theta # 1571 \/ q.mass = 0)
              => q.p = Momentum(-One, 0, 0, 2 * One) }

NoMetric == [mass |-> 0, spin |-> 0, chart |-> "none"]

MetricInit ==
    /\ probe \in ProbeSamples
    /\ answer = NoAnswer
    /\ parked = NoParked
    /\ metric = NoMetric
    /\ pc = "build"
    /\ initial = GeodesicState(0, probe.r, probe.theta, 0,
                               probe.p[0], probe.p[1], probe.p[2], probe.p[3])
    /\ options \in {o \in OptionsSamples : o.method.kind = "RK4" /\ o.max_steps = 1
                        /\ o.renormalize_interval = 1 /\ o.record_path
                        /\ o.escape_radius = 2007}
    /\ state = initial
    /\ stepper = AdaptiveStepperNew(options.tolerance)
    /\ h = options.initial_step
    /\ horizon = 0
    /\ max_drift = 0
    /\ steps = 0
    /\ path = NoPath
    /\ iters = 0
    /\ hs = 0
    /\ traj = << >>
    /\ tested = {}
    /\ renorm_log = << >>
    /\ call = NoCall

\* what the evaluation of a metric function leaves alone
evaluation_frame == <<initial, metric, options, pc, state, stepper, h, horizon, max_drift,
                      steps, path, iters, hs, traj, tested, renorm_log, call, probe,
                      parked>>

\* Kerr::new, Kerr::kerr_schild, Schwarzschild::new or Minkowski
Construct ==
    /\ pc = "build"
    /\ metric' = CASE probe.kind = "Kerr::new" -> Kerr_new(probe.mass, probe.spin)
                    [] probe.kind = "Kerr::kerr_schild" -> Kerr_kerr_schild(probe.mass, probe.spin)
                    [] probe.kind = "Schwarzschild::new" -> Schwarzschild_new(probe.mass)
                    [] probe.kind = "Minkowski" -> Minkowski
    /\ pc' = "built"
    /\ UNCHANGED <<initial, options, state, stepper, h, horizon, max_drift, steps, path,
                   iters, hs, traj, tested, renorm_log, call, probe, answer, parked>>

\* Metric::covariant(&self, r, theta) of the built metric
Metric_covariant(value, r, theta) ==
    CASE value.chart = "Schwarzschild" -> schwarzschild_covariant(value, r, theta)
      [] value.chart = "Minkowski" -> minkowski_covariant(r, theta)
      [] OTHER -> kerr_covariant(value, r, theta)

\* Metric::contravariant(&self, r, theta) of the built metric
Metric_contravariant(value, r, theta) ==
    CASE value.chart = "Schwarzschild" -> schwarzschild_contravariant(value, r, theta)
      [] value.chart = "Minkowski" -> minkowski_contravariant(r, theta)
      [] OTHER -> kerr_contravariant(value, r, theta)

EvalCovariant ==
    /\ pc = "built"
    /\ answer.covariant = << >>
    /\ answer' = [answer EXCEPT !.covariant = <<Metric_covariant(metric, probe.r, probe.theta)>>]
    /\ UNCHANGED evaluation_frame

EvalContravariant ==
    /\ pc = "built"
    /\ answer.contravariant = << >>
    /\ answer' = [answer EXCEPT
                     !.contravariant = <<Metric_contravariant(metric, probe.r, probe.theta)>>]
    /\ UNCHANGED evaluation_frame

EvalEventHorizon ==
    /\ pc = "built"
    /\ answer.event_horizon = << >>
    /\ answer' = [answer EXCEPT !.event_horizon = <<event_horizon(metric)>>]
    /\ UNCHANGED evaluation_frame

\* p_r^KS = p_r^BL + (2 M r E - a L_z) / Delta, with E = -p_t and L_z = p_phi
p_r_ks(bl, r, p_bl) ==
    LET a == Kerr_a(bl)
        delta == FAdd(FAdd(QMul(r, r), FNeg(QMul(FMul(2, bl.mass), r))), QMul(a, a))
        e == FNeg(p_bl[0])
        lz == p_bl[3]
    IN FAdd(p_bl[1], QDiv(FAdd(QMul(QMul(FMul(2, bl.mass), r), e), FNeg(QMul(a, lz))), delta))

\* The comparison of test_hamiltonian_consistency_bl_vs_ks at the probe: the
\* Hamiltonian 0.5 * g_inv.contract(&p) of the Boyer-Lindquist metric and of
\* the Kerr-Schild metric with the same mass and spin
CompareCharts ==
    /\ pc = "built"
    /\ probe.kind = "Kerr::new" /\ probe.theta = 1571
    /\ answer.h_bl = << >>
    /\ LET bl == Kerr_new(probe.mass, probe.spin)
           ks == Kerr_kerr_schild(probe.mass, probe.spin)
           p_bl == probe.p
           p_ks == [p_bl EXCEPT ![1] = p_r_ks(bl, probe.r, p_bl)]
       IN answer' = [answer EXCEPT
             !.h_bl = <<QMul(One \div 2, contract(kerr_contravariant(bl, probe.r, probe.theta), p_bl))>>,
             !.h_ks = <<QMul(One \div 2, contract(kerr_contravariant(ks, probe.r, probe.theta), p_ks))>>]
    /\ UNCHANGED evaluation_frame

MetricNext ==
    \/ Construct
    \/ EvalCovariant
    \/ EvalContravariant
    \/ EvalEventHorizon
    \/ CompareCharts

MetricSpec == MetricInit /\ [][MetricNext]_vars

\* ------------------------------------------------------- Kerr::isco alone
\* requested spins a* in thousandths, 0.998 of test_extreme_kerr_isco among them
IscoSpinSamples ==
    {-2000, -1000, -998, -500, -1, 0, 1, 100, 500, 900, 998, 1000, 1500, NaN}

OrbitInit ==
    /\ probe \in [kind : {"Kerr::new", "Kerr::kerr_schild"}, mass : MassSamples,
                  spin : IscoSpinSamples]
    /\ answer = [Prograde |-> << >>, Retrograde |-> << >>]
    /\ parked = NoParked
    /\ metric = NoMetric
    /\ pc = "build"
    /\ initial = GeodesicState(0, 10 * One, 1571, 0, -One, 0, 0, 0)
    /\ options \in {o \in OptionsSamples : o.method.kind = "RK4" /\ o.max_steps = 1
                        /\ o.renormalize_interval = 1 /\ o.record_path
                        /\ o.escape_radius = 2007}
    /\ state = initial
    /\ stepper = AdaptiveStepperNew(options.tolerance)
    /\ h = options.initial_step
    /\ horizon = 0
    /\ max_drift = 0
    /\ steps = 0
    /\ path = NoPath
    /\ iters = 0
    /\ hs = 0
    /\ traj = << >>
    /\ tested = {}
    /\ renorm_log = << >>
    /\ call = NoCall

\* one call self.isco(orbit) on the built Kerr value
EvalIsco ==
    /\ pc = "built"
    /\ \E orbit \in {"Prograde", "Retrograde"} :
          /\ answer[orbit] = << >>
          /\ answer' = [answer EXCEPT ![orbit] = <<Kerr_isco(metric, orbit)>>]
    /\ UNCHANGED evaluation_frame

OrbitNext ==
    \/ Construct
    \/ EvalIsco

OrbitSpec == OrbitInit /\ [][OrbitNext]_vars

\* ------------------------------- velocity and Hamiltonian of a concrete metric
\* momenta with components that are not whole units, and a NaN polar momentum
TensorMomentumSamples ==
    { Momentum(p_t, p_r, p_th, p_ph) :
        p_t \in {-One, -83}, p_r \in {0, 45}, p_th \in {0, One, NaN},
        p_ph \in {0, 2 * One, -83} }

TensorProbeSamples ==
    { q \in [kind : {"Kerr::new", "Kerr::kerr_schild", "Schwarzschild::new", "Minkowski"},
             mass : {One}, spin : {0, 500, 900}, r : {3 * One, 10 * One},
             theta : {785, 1571}, p : TensorMomentumSamples] :
        q.kind \in {"Schwarzschild::new", "Minkowski"} => q.spin = 0 }

TensorInit ==
    /\ probe \in TensorProbeSamples
    /\ answer = [velocity |-> << >>, raised |-> << >>, hamiltonian |-> << >>,
                 contract |-> << >>]
    /\ parked = NoParked
    /\ metric = NoMetric
    /\ pc = "build"
    /\ initial = GeodesicState(0, probe.r, probe.theta, 0,
                               probe.p[0], probe.p[1], probe.p[2], probe.p[3])
    /\ options \in {o \in OptionsSamples : o.method.kind = "RK4" /\ o.max_steps = 1
                        /\ o.renormalize_interval = 1 /\ o.record_path
                        /\ o.escape_radius = 2007}
    /\ state = initial
    /\ stepper = AdaptiveStepperNew(options.tolerance)
    /\ h = options.initial_step
    /\ horizon = 0
    /\ max_drift = 0
    /\ steps = 0
    /\ path = NoPath
    /\ iters = 0
    /\ hs = 0
    /\ traj = << >>
    /\ tested = {}
    /\ renorm_log = << >>
    /\ call = NoCall

\* the velocity part of get_state_derivative(&initial, &metric)
EvalVelocity ==
    /\ pc = "built"
    /\ answer.velocity = << >>
    /\ answer' = [answer EXCEPT !.velocity =
          <<coordinate_velocity(Metric_contravariant(metric, initial.x[1], initial.x[2]),
                                initial.p)>>]
    /\ UNCHANGED evaluation_frame

\* metric.contravariant(r, theta).raise_index(&p)
EvalRaiseIndex ==
    /\ pc = "built"
    /\ answer.raised = << >>
    /\ answer' = [answer EXCEPT !.raised =
          <<raise_index(Metric_contravariant(metric, initial.x[1], initial.x[2]),
                        initial.p)>>]
    /\ UNCHANGED evaluation_frame

\* invariants::hamiltonian(&initial, &metric), in units of 1/2
EvalHamiltonian ==
    /\ pc = "built"
    /\ answer.hamiltonian = << >>
    /\ answer' = [answer EXCEPT !.hamiltonian =
          <<hamiltonian_terms(Metric_contravariant(metric, initial.x[1], initial.x[2]),
                              initial.p)>>]
    /\ UNCHANGED evaluation_frame

\* 0.5 * metric.contravariant(r, theta).contract(&p) of NumericalAudit, in
\* units of 1/2
EvalContract ==
    /\ pc = "built"
    /\ answer.contract = << >>
    /\ answer' = [answer EXCEPT !.contract =
          <<contract(Metric_contravariant(metric, initial.x[1], initial.x[2]), initial.p)>>]
    /\ UNCHANGED evaluation_frame

TensorNext ==
    \/ Construct
    \/ EvalVelocity
    \/ EvalRaiseIndex
    \/ EvalHamiltonian
    \/ EvalContract

TensorSpec == TensorInit /\ [][TensorNext]_vars

\* ----------------------------------------------- MetricTensor4 on its own
\* diagonal entries -1.0, 0.0, 0.5, 2.0
DiagonalSamples == {-One, 0, One \div 2, 2 * One}

\* rows of the arrays handed to from_array; the arrays are not symmetric
RowSamples ==
    { <<One, 0, 0, 0>>, <<0, 2 * One, One, 0>>, <<One, One, 2 * One, -One>>,
      <<0, 0, One, 2 * One>>, <<-One, 0, 2 * One, One \div 2>>, <<One \div 2, -One, 0, One>> }

ArraySamples ==
    { [i \in 0..15 |-> rows[(i \div 4) + 1][(i % 4) + 1]] :
        rows \in RowSamples \X RowSamples \X RowSamples \X RowSamples }

TensorArgSamples ==
    { [kind |-> "diagonal", args |-> Momentum(a, b, c, d)] :
        a \in DiagonalSamples, b \in DiagonalSamples, c \in DiagonalSamples,
        d \in DiagonalSamples }
    \cup { [kind |-> "from_array", args |-> m] : m \in ArraySamples }

DeterminantInit ==
    /\ probe \in TensorArgSamples
    /\ answer = [tensor |-> << >>, determinant |-> << >>]
    /\ parked = NoParked
    /\ metric = NoMetric
    /\ pc = "build"
    /\ initial = GeodesicState(0, 10 * One, 1571, 0, -One, 0, 0, 0)
    /\ options \in {o \in OptionsSamples : o.method.kind = "RK4" /\ o.max_steps = 1
                        /\ o.renormalize_interval = 1 /\ o.record_path
                        /\ o.escape_radius = 2007}
    /\ state = initial
    /\ stepper = AdaptiveStepperNew(options.tolerance)
    /\ h = options.initial_step
    /\ horizon = 0
    /\ max_drift = 0
    /\ steps = 0
    /\ path = NoPath
    /\ iters = 0
    /\ hs = 0
    /\ traj = << >>
    /\ tested = {}
    /\ renorm_log = << >>
    /\ call = NoCall

\* MetricTensor4::diagonal(a, b, c, d) or MetricTensor4::from_array(components)
BuildTensor ==
    /\ pc = "build"
    /\ answer' = [answer EXCEPT !.tensor =
          <<IF probe.kind = "diagonal"
            THEN Diagonal(probe.args[0], probe.args[1], probe.args[2], probe.args[3])
            ELSE from_array(probe.args)>>]
    /\ pc' = "built"
    /\ UNCHANGED <<initial, metric, options, state, stepper, h, horizon, max_drift, steps,
                   path, iters, hs, traj, tested, renorm_log, call, probe, parked>>

\* tensor.determinant()
EvalDeterminant ==
    /\ pc = "built"
    /\ answer.determinant = << >>
    /\ answer' = [answer EXCEPT !.determinant = <<determinant(answer.tensor[1])>>]
    /\ UNCHANGED evaluation_frame

DeterminantNext ==
    \/ BuildTensor
    \/ EvalDeterminant

DeterminantSpec == DeterminantInit /\ [][DeterminantNext]_vars

\* ------------------------------------------------ adaptive_rkf45_step alone
\* sizes of the embedded difference, in the coordinates and in the momenta
EmbeddedErrorSamples == [x : ErrorSamples, p : ErrorSamples]

EstimateInit ==
    /\ initial \in InitialSamples
    /\ metric \in MetricValueSamples
    /\ options \in {o \in OptionsSamples : o.method.kind = "AdaptiveRKF45" /\ o.max_steps = 1
                        /\ o.tolerance = 100000 /\ o.renormalize_interval = 1
                        /\ o.record_path /\ o.escape_radius = 2007}
    /\ pc = "rkf45"
    /\ state = initial
    /\ stepper = AdaptiveStepperNew(options.tolerance)
    /\ h = options.initial_step
    /\ horizon = 0
    /\ max_drift = 0
    /\ steps = 0
    /\ path = NoPath
    /\ iters = 0
    /\ hs = 0
    /\ traj = << >>
    /\ tested = {}
    /\ renorm_log = << >>
    /\ call = NoCall
    /\ probe \in {[kind |-> "adaptive_rkf45_step", e |-> e] : e \in EmbeddedErrorSamples}
    /\ answer = NoAnswer
    /\ parked = NoParked

\* one call adaptive_rkf45_step(&state, metric, h)
Estimate ==
    /\ pc = "rkf45"
    /\ answer.rkf45 = << >>
    /\ answer' = [answer EXCEPT !.rkf45 = <<adaptive_rkf45_step(state, metric, h, probe.e)>>]
    /\ UNCHANGED evaluation_frame

EstimateSpec == EstimateInit /\ [][Estimate]_vars

TypeOK ==
    pc \in {"call", "loop", "check", "step", "trial", "post", "returned", "panicked", "renorm",
            "build", "built", "rkf45"}

\* ------------------------------------------------------------------ claims
\* integrate has returned with this reason
ReturnedWith(reasons) == pc = "returned" /\ traj[1].termination \in reasons

\* C1 as stated: the final_state of every returned Trajectory, MaxSteps
\* included, is a state on which check_termination was evaluated; no state is
\* returned that was produced by a step and never tested.
C1_EveryFinalStateTested ==
    pc = "returned" /\ traj[1].steps_taken >= 1 => traj[1].final_state \in tested

\* C1: check_termination is evaluated on the incoming state before every step,
\* and a Trajectory returned with Horizon or Escape carries a state on which it
\* was evaluated.  (A MaxSteps Trajectory carries the output of the last step,
\* or of the renormalization at the start when max_steps = 0.)
C1_TestedBeforeStep ==
    /\ pc \in {"step", "trial"} => state \in tested
    /\ ReturnedWith({"Horizon", "Escape"}) => traj[1].final_state \in tested

\* a Horizon return after at least two steps
C1_Witness == ReturnedWith({"Horizon"}) /\ traj[1].steps_taken >= 2

\* C2: a Horizon final_state has r < 1.001 r+; an Escape final_state has
\* r > escape_radius and not r < 1.001 r+; when the test fires the Trajectory is
\* built from the locals as they are (no step, renormalization, drift update,
\* step count or path append), and nothing happens after the return.
C2_ReturnIsImmediate ==
    /\ [](ReturnedWith({"Horizon"}) =>
             FLt(FMul(traj[1].final_state.x[1], 1000), FMul(event_horizon(metric), 1001)))
    /\ [](ReturnedWith({"Escape"}) =>
             /\ FGt(traj[1].final_state.x[1], options.escape_radius)
             /\ ~FLt(FMul(traj[1].final_state.x[1], 1000), FMul(event_horizon(metric), 1001)))
    /\ [][pc = "check" /\ pc' = "returned" =>
             /\ traj' = <<[final_state |-> state, termination |-> traj'[1].termination,
                           steps_taken |-> steps, max_hamiltonian_drift |-> max_drift,
                           path |-> path]>>
             /\ UNCHANGED <<state, steps, max_drift, path, renorm_log, h, iters>>]_vars
    /\ [][pc # "returned"]_vars

\* an Escape return after a step
C2_Witness == ReturnedWith({"Escape"}) /\ traj[1].steps_taken >= 1

\* C3: at most max_steps iterations are started; steps_taken <= max_steps;
\* MaxSteps exactly when steps_taken = max_steps; max_steps = 0 returns MaxSteps
\* with steps_taken = 0 and no test at all.
C3_StepBudget ==
    /\ iters <= options.max_steps
    /\ steps <= iters
    /\ pc = "returned" =>
          /\ traj[1].steps_taken <= options.max_steps
          /\ traj[1].termination = "MaxSteps" <=> traj[1].steps_taken = options.max_steps
          /\ options.max_steps = 0 => traj[1].steps_taken = 0 /\ tested = {}

\* a MaxSteps return that used the whole budget of the bound
C3_Witness == ReturnedWith({"MaxSteps"}) /\ traj[1].steps_taken = MaxStepsBound

\* C4: the reason carried by a returned Trajectory is Horizon, Escape or
\* MaxSteps, never DiskCrossing or None.
C4_ReasonsReturned ==
    /\ pc = "returned" <=> traj # << >>
    /\ pc = "returned" => /\ traj[1].termination \in {"Horizon", "Escape", "MaxSteps"}
                          /\ traj[1].termination \in TerminationReason

\* a MaxSteps return of a fixed-step method
C4_Witness == ReturnedWith({"MaxSteps"}) /\ options.method.kind = "Symplectic"

\* C5 as stated: integrate never panics, whatever the options.
C5_NeverPanics == pc # "panicked"

\* The inputs C6 is about: adaptive method, max_steps >= 1, an initial state
\* on which no termination predicate holds, and initial_step = 0 or
\* tolerance <= 0 or a NaN momentum component
Pathological ==
    /\ options.method.kind = "AdaptiveRKF45"
    /\ options.max_steps >= 1
    /\ check_termination(initial, event_horizon(metric), options.escape_radius) = "None"
    /\ \/ options.initial_step = 0
       \/ options.tolerance <= 0
       \/ \E i \in 0..3 : IsNaN(initial.p[i])

\* C6 as stated: on these inputs integrate returns MaxSteps with a NaN drift.
C6_MaxStepsAndNaNDrift ==
    pc = "returned" /\ Pathological =>
        traj[1].termination = "MaxSteps" /\ IsNaN(traj[1].max_hamiltonian_drift)

\* C6: on these inputs the returned max_hamiltonian_drift is never NaN (a NaN
\* |H| fails `h_val > max_drift` and is skipped); initial_step = 0 returns
\* MaxSteps; a NaN momentum component that the renormalization at the start
\* does not replace returns MaxSteps with drift 0.
C6_DriftNeverNaN ==
    pc = "returned" /\ Pathological =>
        /\ ~IsNaN(traj[1].max_hamiltonian_drift)
        /\ traj[1].max_hamiltonian_drift >= 0
        /\ options.initial_step = 0 => traj[1].termination = "MaxSteps"
        /\ (\E i \in 0..3 : IsNaN(renormalize_null(initial, metric).p[i])) =>
               traj[1].termination = "MaxSteps" /\ traj[1].max_hamiltonian_drift = 0

\* a NaN energy carried through two steps
C6_Witness ==
    /\ ReturnedWith({"MaxSteps"}) /\ Pathological
    /\ IsNaN(initial.p[0]) /\ traj[1].steps_taken >= 2
    /\ IsNaN(hamiltonian(traj[1].final_state, metric))

\* The steps 1..n after which a renormalization is expected, after the one at
\* the start (logged as 0)
LogFor(n, after(_)) == <<0>> \o SelectSeq([i \in 1..n |-> i], after)

\* C7 as stated: renormalize_null runs once before the first step and then
\* after step n exactly when n is a multiple of renormalize_interval.
C7_AfterMultiples ==
    LET k == options.renormalize_interval
        after(n) == k # 0 /\ n % k = 0
    IN pc # "call" => renorm_log = LogFor(steps, after)

\* C7: renormalize_null runs once before the first step and then after step n
\* exactly when n - 1, the number of steps completed before it, is a multiple
\* of renormalize_interval: after steps 1, k + 1, 2k + 1, ...; the indices
\* depend on renormalize_interval alone.  (With renormalize_interval = 0 no
\* step completes.)
C7_AfterMultiplesPlusOne ==
    LET k == options.renormalize_interval
        after(n) == k # 0 /\ (n - 1) % k = 0
    IN pc # "call" => renorm_log = LogFor(steps, after)

\* three steps at interval 2: renormalized at the start and after steps 1, 3
C7_Witness ==
    pc = "returned" /\ options.renormalize_interval = 2 /\ renorm_log = <<0, 1, 3>>

\* The maximum of |H| over a sequence of states, NaN values skipped, 0 if none
MaxAbsH(seq) ==
    LET vals == {FAbs(hamiltonian(seq[i], metric)) : i \in 1..Len(seq)} \ {NaN}
    IN IF vals = {} THEN 0 ELSE CHOOSE m \in vals : \A v \in vals : v <= m

\* C8: max_drift starts at 0 and never decreases; it is >= 0 and is the
\* maximum of |H| over the states left by the completed steps (the recorded
\* path after its first entry), so 0 when no step was taken; the returned
\* max_hamiltonian_drift is that value.
C8_DriftIsRunningMax ==
    /\ [](/\ ~IsNaN(max_drift) /\ max_drift >= 0
          /\ steps = 0 => max_drift = 0
          /\ path.some => max_drift = MaxAbsH(Tail(path.v))
          /\ pc = "returned" => traj[1].max_hamiltonian_drift = max_drift)
    /\ [][max_drift' >= max_drift]_vars

\* a recorded run whose largest |H| is not the last one
C8_Witness ==
    /\ pc = "returned" /\ path.some /\ traj[1].steps_taken >= 2
    /\ traj[1].max_hamiltonian_drift > 0
    /\ FLt(FAbs(hamiltonian(traj[1].final_state, metric)), traj[1].max_hamiltonian_drift)

\* C9: AdaptiveStepper::step terminates: its loop goes round only on a
\* rejected trial, which multiplies |h| by a factor in [0.1, 0.9) (to the
\* resolution of the unit) and commits nothing, and it goes round only while
\* |h| >= min_step.  When a rejection brings |h| under min_step, one RKF45 step
\* of min_step * signum(h) is committed whatever its error estimate, and
\* min_step * signum(h) is returned.  Every call commits exactly one step.
C9_RejectShrinksThenForces ==
    /\ [][pc = "trial" /\ call'.rejects = call.rejects + 1 =>
             /\ (Abs(hs') + 1) * 10 > Abs(hs)
             /\ Abs(hs') * 10 < Abs(hs) * 9
             /\ IF call'.forced
                THEN /\ Abs(hs') < stepper.min_step
                     /\ h' = stepper.min_step * Sgn(hs')
                     /\ state' = add_scaled(state, get_state_derivative(state, metric), Sgn(hs'))
                     /\ pc' = "post"
                ELSE /\ Abs(hs') >= stepper.min_step
                     /\ state' = state
                     /\ pc' = "trial"]_vars
    /\ [](pc = "trial" => call.commits = 0 /\ ~call.forced)
    /\ [][pc = "trial" /\ pc' = "trial" => call'.rejects = call.rejects + 1]_vars
    /\ [](pc = "post" => call.commits = 1)

\* a call that was rejected three times and then forced
C9_Witness == pc = "post" /\ call.forced /\ call.rejects >= 3

\* C10 as stated: for a nonzero h_try the returned step size has its
\* magnitude within [min_step, max_step].
C10_WithinMinAndMax ==
    pc = "post" /\ call.h_try # 0 =>
        FGe(FAbs(h), stepper.min_step) /\ FGe(stepper.max_step, FAbs(h))

\* C10: the returned step size is NaN exactly when h_try is; otherwise its
\* magnitude is at most max_step; a forced step returns exactly min_step in
\* magnitude; an accepted step returns the accepted h times a growth factor in
\* [0.9, 5] (to the resolution of the unit), clamped to max_step, which can be
\* under min_step.
C10_WithinMaxOnly ==
    pc = "post" =>
        /\ IsNaN(h) <=> IsNaN(call.h_try)
        /\ ~IsNaN(h) => Abs(h) <= stepper.max_step
        /\ call.forced => Abs(h) = stepper.min_step
        /\ ~call.forced /\ ~IsNaN(h) =>
              /\ Abs(h) <= 5 * Abs(call.used)
              /\ (Abs(h) + 1) * 10 > 9 * Abs(call.used)

\* the second call, fed the first one's return value, returns a step under
\* min_step
C10_Witness ==
    /\ pc = "post" /\ iters = 2 /\ ~call.forced
    /\ call.h_try # 0 /\ FLt(FAbs(h), stepper.min_step) /\ FGt(FAbs(h), 0)

\* The quadratic A p_r^2 + B p_r + C = 0 of the null condition at a state
NullQuadratic(st) ==
    LET g == contravariant(metric, st.x[1], st.x[2])
        b == FMul(2, FAdd(FMul(g[1], st.p[0]), FMul(g[7], st.p[3])))
        c == FAdd(FAdd(FAdd(FMul(FMul(g[0], st.p[0]), st.p[0]),
                            FMul(FMul(g[10], st.p[2]), st.p[2])),
                            FMul(FMul(g[15], st.p[3]), st.p[3])),
                            FMul(FMul(FMul(2, g[3]), st.p[0]), st.p[3]))
    IN [a |-> g[5], disc |-> FAdd(FMul(b, b), FNeg(FMul(FMul(4, g[5]), c)))]

\* C11: renormalize_null leaves the whole state (x and p, p_r included) as it
\* is when A = g^rr is 0 (|A| <= 1e-12) or the discriminant is negative.
C11_UntouchedWithoutRoot ==
    \A i \in 1..(Len(path.v) - 1) :
        LET q == NullQuadratic(path.v[i])
        IN (q.a = 0 \/ FLt(q.disc, 0)) => path.v[i + 1] = path.v[i]

\* a state off the null cone with a negative discriminant, renormalized
C11_Witness ==
    /\ pc = "renorm" /\ steps >= 1
    /\ NullQuadratic(initial).a # 0 /\ FLt(NullQuadratic(initial).disc, 0)
    /\ hamiltonian(initial, metric) # 0

\* C12: renormalize_null is idempotent: the second application returns the
\* state the first one returned.
C12_Idempotent == \A i \in 2..(Len(path.v) - 1) : path.v[i + 1] = path.v[i]

\* two applications, the first of which moved p_r to a root
C12_Witness == pc = "renorm" /\ steps >= 2 /\ path.v[2] # path.v[1] /\ ~IsNaN(path.v[1].p[1])

\* p_t and p_phi of a state are those of the initial state
SameEnergyAndAngularMomentum(st) == st.p[0] = initial.p[0] /\ st.p[3] = initial.p[3]

\* C13: E = -p_t and L_z = p_phi are conserved exactly: with a finite step
\* size, the current state, every recorded path entry and the final state of
\* an integrate run have the p_t and the p_phi of the initial state.
C13_EnergyAndAngularMomentumKept ==
    ~IsNaN(options.initial_step) =>
        /\ pc # "call" => SameEnergyAndAngularMomentum(state)
        /\ path.some => \A i \in 1..Len(path.v) : SameEnergyAndAngularMomentum(path.v[i])
        /\ pc = "returned" => SameEnergyAndAngularMomentum(traj[1].final_state)

\* a recorded run of two steps or more whose p_r moved, by the force of the
\* cross chart or by a renormalization
C13_Witness ==
    /\ pc = "returned" /\ path.some /\ traj[1].steps_taken >= 2
    /\ ~IsNaN(options.initial_step) /\ ~IsNaN(initial.p[0])
    /\ ~IsNaN(traj[1].final_state.p[1])
    /\ traj[1].final_state.p[1] # initial.p[1]
    /\ traj[1].final_state.x[1] # initial.x[1]

IsKerr == pc = "built" /\ probe.kind \in {"Kerr::new", "Kerr::kerr_schild"}

\* the spin of the built Kerr value is the requested one, or the nearest bound
SpinAsRequested ==
    metric.spin = (IF FLt(probe.spin, -1000) THEN -1000
                   ELSE IF FGt(probe.spin, 1000) THEN 1000 ELSE probe.spin)

MassAndChartAsRequested ==
    /\ metric.mass = probe.mass
    /\ metric.chart = (IF probe.kind = "Kerr::new" THEN "BoyerLindquist" ELSE "KerrSchild")

\* C14: every Kerr value built by Kerr::new or Kerr::kerr_schild, with any
\* input spin, has spin() in [-1, 1] (the nearest bound for a spin out of
\* range, the spin itself otherwise), and the mass and the chart requested.
C14_SpinInRange ==
    IsKerr => /\ FGe(metric.spin, -1000) /\ FGe(1000, metric.spin)
              /\ SpinAsRequested
              /\ MassAndChartAsRequested

\* C14, for the inputs other than NaN: the spin is in [-1, 1], as requested or
\* the nearest bound, with the mass and the chart requested
C14_NumberSpinInRange ==
    IsKerr /\ ~IsNaN(probe.spin) =>
        /\ FGe(metric.spin, -1000) /\ FGe(1000, metric.spin)
        /\ SpinAsRequested
        /\ MassAndChartAsRequested

\* C14: no operation changes the mass, the spin or the chart of a built metric
C14_ValueNeverChanges == [][pc = "built" => metric' = metric]_vars

\* a spin of 1.5 was clamped and the metric functions were evaluated since
C14_Witness ==
    /\ IsKerr /\ probe.spin = 1500 /\ metric.spin = 1000
    /\ answer.covariant # << >> /\ answer.contravariant # << >>
    /\ answer.event_horizon # << >>

\* C15: for a Kerr metric with M >= 0 and spin in [-1, 1], event_horizon()
\* is M + sqrt(M^2 - a^2) with a = a* M (to the unit), the discriminant is
\* never negative, and the value is in [M, 2M]: 2M at a* = 0, M at |a*| = 1.
C15_HorizonFormula ==
    (/\ IsKerr /\ probe.mass >= 0
     /\ FGe(metric.spin, -1000) /\ FGe(1000, metric.spin)
     /\ answer.event_horizon # << >>) =>
        LET m == metric.mass
            a == Kerr_a(metric)
            disc == m * m - a * a
            root == answer.event_horizon[1] - m
        IN /\ disc >= 0
           /\ root >= 0 /\ root * root <= disc /\ (root + 1) * (root + 1) > disc
           /\ m <= answer.event_horizon[1] /\ answer.event_horizon[1] <= 2 * m
           /\ metric.spin = 0 => answer.event_horizon[1] = 2 * m
           /\ Abs(metric.spin) = 1000 => answer.event_horizon[1] = m

\* the horizon of a Kerr metric with 0 < |a*| < 1 lies strictly between M and 2M
C15_Witness ==
    /\ IsKerr /\ probe.mass = 2 * One /\ metric.spin = -500
    /\ answer.event_horizon # << >>
    /\ answer.event_horizon[1] > metric.mass
    /\ answer.event_horizon[1] < 2 * metric.mass

Symmetric(g) == \A mu \in 0..3 : \A nu \in 0..3 : g[mu * 4 + nu] = g[nu * 4 + mu]

\* C16: for Kerr in both charts, Schwarzschild and Minkowski, the tensors
\* returned by covariant and by contravariant are symmetric at every
\* (r, theta): component (mu, nu) equals component (nu, mu).
C16_TensorsSymmetric ==
    /\ answer.covariant # << >> => Symmetric(answer.covariant[1])
    /\ answer.contravariant # << >> => Symmetric(answer.contravariant[1])

\* C16 without the covariant tensor of the Kerr-Schild chart: every other
\* tensor writes each off-diagonal pair from one value
C16_SymmetricButCovariantKS ==
    /\ (answer.covariant # << >> /\ metric.chart # "KerrSchild")
          => Symmetric(answer.covariant[1])
    /\ answer.contravariant # << >> => Symmetric(answer.contravariant[1])

\* C16: the r-phi and phi-r components of the covariant Kerr-Schild tensor
\* differ by no more than the rounding of one product
C16_CovariantKSWithinOneUnit ==
    (answer.covariant # << >> /\ metric.chart = "KerrSchild" /\ ~IsNaN(metric.spin)) =>
        \A mu \in 0..3 : \A nu \in 0..3 :
            Abs(answer.covariant[1][mu * 4 + nu] - answer.covariant[1][nu * 4 + mu]) <= 1

\* a spinning Kerr-Schild metric with both tensors evaluated off the equator
C16_Witness ==
    /\ pc = "built" /\ metric.chart = "KerrSchild" /\ metric.spin = 500 /\ probe.theta = 785
    /\ answer.covariant # << >> /\ answer.contravariant # << >>
    /\ answer.contravariant[1][7] # 0

\* C17: at the equator and every r >= 10 M with M > 0 and |a*| <= 1, the
\* covariant Boyer-Lindquist Kerr metric has g_tt < 0 and g_rr, g_thetatheta
\* and g_phiphi > 0.
C17_SignatureFarFromTheHole ==
    (/\ pc = "built" /\ metric.chart = "BoyerLindquist"
     /\ probe.theta = 1571 /\ probe.mass > 0 /\ probe.r >= 10 * probe.mass
     /\ FGe(metric.spin, -1000) /\ FGe(1000, metric.spin)
     /\ answer.covariant # << >>) =>
        /\ FLt(answer.covariant[1][0], 0)
        /\ FGt(answer.covariant[1][5], 0)
        /\ FGt(answer.covariant[1][10], 0)
        /\ FGt(answer.covariant[1][15], 0)

\* the covariant tensor of a spinning hole at the equator and r = 10 M, with
\* frame dragging
C17_Witness ==
    /\ pc = "built" /\ metric.chart = "BoyerLindquist" /\ metric.spin = 500
    /\ probe.theta = 1571 /\ probe.mass = 2 * One /\ probe.r = 20 * One
    /\ answer.covariant # << >>
    /\ answer.covariant[1][3] < 0

PowerOfTwo(q) == \E k \in 0..20 : q = 2 ^ k

\* Delta = r^2 - 2 M r + a^2 of the probe
ProbeDelta ==
    LET a == Kerr_a(metric)
    IN FAdd(FAdd(QMul(probe.r, probe.r), FNeg(QMul(FMul(2, metric.mass), probe.r))),
            QMul(a, a))

\* The points where Sigma = r^2 and Delta are powers of two: every quotient of
\* the two contravariant tensors and of the momentum map is exact there, in
\* the unit as in binary floating point.
ExactPoint == PowerOfTwo(probe.r) /\ PowerOfTwo(ProbeDelta)

InitialOf(id) == IF parked.who = id THEN parked.initial ELSE initial

Estimated ==
    /\ answer.rkf45 # << >>
    /\ ~IsNaN(h) /\ h # 0
    /\ \A i \in 0..3 : ~IsNaN(get_state_derivative(state, metric).x[i])

\* C20: the error estimate of adaptive_rkf45_step is the maximum of the
\* embedded difference over all 8 state components, x and p, so an error in
\* a momentum component only raises it.
C20_EstimateOverEightComponents ==
    Estimated => answer.rkf45[1].error = FMax(probe.e.x, probe.e.p)

\* C20 as the code has it: the estimate is the maximum over the four
\* coordinate components, whatever the difference in the momenta
C20_EstimateOverCoordinates ==
    Estimated => answer.rkf45[1].error = probe.e.x

\* a trial whose momentum difference is above its coordinate difference
C20_Witness ==
    Estimated /\ probe.e.x = 0 /\ probe.e.p > 0 /\ answer.rkf45[1].state # state

\* both orbits of the built Kerr value have been evaluated
IscoEvaluated == pc = "built" /\ answer.Prograde # << >> /\ answer.Retrograde # << >>

\* C21 as stated: Kerr::isco returns exactly 6M when |a*| < 1e-6, for either
\* orbit; for every Kerr value with M >= 0, isco(Prograde) <= isco(Retrograde);
\* for a* = 0.998 and M = 1 the prograde value is below 1.5.
C21_IscoOrdered ==
    IscoEvaluated =>
        /\ metric.spin = 0 => /\ answer.Prograde[1] = 6000 * metric.mass
                              /\ answer.Retrograde[1] = 6000 * metric.mass
        /\ metric.mass >= 0 => FGe(answer.Retrograde[1], answer.Prograde[1])
        /\ metric.spin = 998 /\ metric.mass = One => FLt(answer.Prograde[1], 1500 * One)

\* C21 for the spins other than NaN: 6M at a* = 0, prograde within [M, 6M] and
\* retrograde within [6M, 9M] (to the hundredth), prograde <= retrograde, the
\* two equal under a* -> -a*, and 1.24 M at a* = 0.998
C21_IscoOfNumberSpins ==
    IscoEvaluated /\ ~IsNaN(metric.spin) =>
        LET pro == answer.Prograde[1]
            retro == answer.Retrograde[1]
            m == metric.mass
        IN /\ metric.spin = 0 => pro = 6000 * m /\ retro = 6000 * m
           /\ pro <= retro
           /\ 990 * m <= pro /\ pro <= 6000 * m
           /\ 6000 * m <= retro /\ retro <= 9010 * m
           /\ pro = Kerr_isco([metric EXCEPT !.spin = -metric.spin], "Prograde")
           /\ Abs(metric.spin) = 998 /\ m = One => 1200 * One <= pro /\ pro <= 1280 * One

\* both orbits of a hole with a* = 0.998 and M = 1: prograde under 1.5,
\* retrograde beyond 6
C21_Witness ==
    /\ IscoEvaluated /\ metric.spin = 998 /\ metric.mass = One
    /\ answer.Prograde[1] < 1500 * One /\ answer.Retrograde[1] > 6000 * One

\* C22: renormalize_null writes p_r at most: the four coordinates and p_t,
\* p_theta and p_phi of the state are the same before and after every call.
C22_OnlyRadialMomentum ==
    /\ [](\A i \in 1..(Len(path.v) - 1) :
             /\ path.v[i + 1].x = path.v[i].x
             /\ \A j \in {0, 2, 3} : path.v[i + 1].p[j] = path.v[i].p[j])
    /\ [][pc = "renorm" => /\ state'.x = state.x
                           /\ \A j \in {0, 2, 3} : state'.p[j] = state.p[j]]_vars

\* a call that moved p_r of a state with polar momentum
C22_Witness ==
    /\ pc = "renorm" /\ steps >= 1
    /\ path.v[1].p[2] # 0 /\ ~IsNaN(path.v[1].p[1])
    /\ path.v[2].p[1] # path.v[1].p[1]

\* The coefficients A, B, C of the null condition at a state, as the spec
\* lists them, and the root of the discriminant as the program rounds it
NullCoefficients(st) ==
    LET g == contravariant(metric, st.x[1], st.x[2])
        b == FMul(2, FAdd(FMul(g[1], st.p[0]), FMul(g[7], st.p[3])))
        c == FAdd(FAdd(FAdd(FMul(FMul(g[0], st.p[0]), st.p[0]),
                            FMul(FMul(g[10], st.p[2]), st.p[2])),
                            FMul(FMul(g[15], st.p[3]), st.p[3])),
                            FMul(FMul(FMul(2, g[3]), st.p[0]), st.p[3]))
        d == FAdd(FMul(b, b), FNeg(FMul(FMul(4, g[5]), c)))
    IN [a |-> g[5], b |-> b, c |-> c, disc |-> d,
        root |-> IF FGe(d, 0) THEN FSqrt(d) ELSE NaN]

\* renormalize_null modifies this state: |A| > 1e-12 and discriminant >= 0
HasRoot(st) == FGt(FAbs(NullCoefficients(st).a), 0) /\ FGe(NullCoefficients(st).disc, 0)

C24_NearerRootSecondOnTie ==
    \A i \in 1..(Len(path.v) - 1) :
        HasRoot(path.v[i]) =>
            LET k == NullCoefficients(path.v[i])
                sol1 == FDiv(k.root - k.b, 2 * k.a)
                sol2 == FDiv(-k.root - k.b, 2 * k.a)
                cur == path.v[i].p[1]
                new == path.v[i + 1].p[1]
                d1 == FAbs(FAdd(sol1, FNeg(cur)))
                d2 == FAbs(FAdd(sol2, FNeg(cur)))
            IN /\ FLt(d1, d2) => new = sol1
               /\ FLt(d2, d1) => new = sol2
               /\ (~IsNaN(d1) /\ d1 = d2) => new = sol2
               /\ ~IsNaN(cur) => /\ Abs(new - cur) <= d1
                                 /\ Abs(new - cur) <= d2

\* a turning point: p_r = 0 and B = 0 with two roots, the negative one taken
C24_Witness ==
    /\ pc = "renorm" /\ steps >= 1 /\ HasRoot(initial)
    /\ initial.p[1] = 0 /\ NullCoefficients(initial).b = 0
    /\ NullCoefficients(initial).root > 1
    /\ state.p[1] = FDiv(-NullCoefficients(initial).root, 2 * NullCoefficients(initial).a)
    /\ state.p[1] < 0

\* the error ratio of a trial from the current state with step hs is <= 1
\* for some size of the embedded difference
RatioCanBeLeOne(le) ==
    \E e \in ErrorSamples :
        RatioLeOne(error_ratio(
            adaptive_rkf45_step(state, metric, hs, [x |-> e, p |-> e]).error,
            stepper.tolerance)) = le

\* C25: each call of AdaptiveStepper::step commits exactly one RKF45 result:
\* a rejected trial (error ratio > 1) leaves the state as it was before the
\* call, so every retry starts from that state; the call ends with the first
\* trial whose ratio is <= 1, computed from that state with the current h, or
\* with the forced step of min_step * signum(h) from that state; and a driver
\* iteration adds one to steps however many trials it rejected.
C25_OneCommitPerCall ==
    /\ [](pc = "trial" => call.commits = 0)
    /\ [](pc = "post" /\ options.method.kind = "AdaptiveRKF45" =>
             /\ call.commits = 1
             /\ call.trials = call.rejects + (IF call.forced THEN 0 ELSE 1))
    /\ [][pc = "trial" /\ pc' = "trial" =>
             /\ state' = state
             /\ call'.rejects = call.rejects + 1
             /\ RatioCanBeLeOne(FALSE)]_vars
    /\ [][pc = "trial" /\ pc' = "post" =>
             IF call'.forced
             THEN /\ RatioCanBeLeOne(FALSE)
                  /\ state' = adaptive_rkf45_step(state, metric,
                                  FMul(stepper.min_step, FSignum(hs')),
                                  [x |-> 0, p |-> 0]).state
             ELSE /\ RatioCanBeLeOne(TRUE)
                  /\ call'.rejects = call.rejects
                  /\ state' = adaptive_rkf45_step(state, metric, hs, [x |-> 0, p |-> 0]).state]_vars
    /\ [](pc = "loop" => steps = iters)
    /\ [](pc \in {"check", "step", "trial", "post"} => steps = iters - 1)
    /\ [][steps' = steps \/ (steps' = steps + 1 /\ pc = "post")]_vars

\* the second step of a run was accepted after two rejected trials or more
C25_Witness ==
    /\ pc = "loop" /\ steps = 2 /\ options.method.kind = "AdaptiveRKF45"
    /\ call.rejects >= 2 /\ call.commits = 1 /\ ~call.forced
    /\ state # initial

\* a step size that is a number, not zero, with the sign of t
SameDirection(a, t) == ~IsNaN(a) /\ a # 0 /\ Sgn(a) = Sgn(t)

\* C26: AdaptiveStepper::step keeps the direction of integration: for every
\* h_try that is finite and not 0, the step of every trial of the call, the
\* step of the committed result and the returned step size have the sign of
\* h_try.
C26_DirectionKept ==
    (call.h_try # 0 /\ ~IsNaN(call.h_try)) =>
        /\ pc = "trial" => SameDirection(hs, call.h_try)
        /\ pc = "post" => /\ SameDirection(call.used, call.h_try)
                          /\ SameDirection(h, call.h_try)

\* a backward call that was rejected down to the forced step, returning
\* -min_step, and a second backward call fed that value
C26_Witness ==
    /\ pc = "post" /\ iters = 2 /\ call.h_try = -stepper.min_step
    /\ call.forced /\ call.rejects >= 1 /\ h = -stepper.min_step

\* C27: the coordinate velocity computed by get_state_derivative equals
\* contravariant(r, theta).raise_index(p) component by component, for every
\* library metric and every state
C27_VelocityIsRaisedIndex ==
    (answer.velocity # << >> /\ answer.raised # << >>)
        => \A mu \in 0..3 : answer.velocity[1][mu] = answer.raised[1][mu]

\* C27, for states whose momentum components are all numbers: the velocity
\* equals the raised momentum component by component, and the raised momentum
\* is the sum over nu of g[mu][nu] * p[nu]
C27_VelocityIsRaisedIndexOfNumbers ==
    /\ (answer.velocity # << >> /\ answer.raised # << >>
            /\ \A nu \in 0..3 : ~IsNaN(initial.p[nu]))
          => \A mu \in 0..3 : answer.velocity[1][mu] = answer.raised[1][mu]
    /\ answer.raised # << >>
          => LET g == Metric_contravariant(metric, initial.x[1], initial.x[2])
             IN \A mu \in 0..3 :
                  answer.raised[1][mu] =
                      FAdd(FAdd(QMul(g[mu * 4], initial.p[0]), QMul(g[mu * 4 + 1], initial.p[1])),
                           FAdd(QMul(g[mu * 4 + 2], initial.p[2]),
                                QMul(g[mu * 4 + 3], initial.p[3])))

\* a Kerr-Schild velocity with its cross terms at work equals the raised momentum
C27_Witness ==
    /\ metric.chart = "KerrSchild" /\ metric.spin = 900
    /\ initial.p = Momentum(-83, 45, One, -83)
    /\ answer.velocity # << >> /\ answer.raised # << >>
    /\ answer.velocity[1] = answer.raised[1]
    /\ \A mu \in 0..3 : answer.velocity[1][mu] # 0 /\ ~IsNaN(answer.velocity[1][mu])

\* the contravariant tensor of the probe, and the number of its products
\* g[mu][nu] * p[mu] * p[nu] that is added into s, pairs of mirrored products
\* first and the diagonal last
ProbeTensor == Metric_contravariant(metric, initial.x[1], initial.x[2])

SixteenProducts ==
    LET g == ProbeTensor
        p == initial.p
        prod(mu, nu) == QMul(QMul(g[mu * 4 + nu], p[mu]), p[nu])
        pair(mu, nu) == FAdd(prod(mu, nu), prod(nu, mu))
    IN FAdd(FAdd(FAdd(FAdd(pair(0, 1), pair(0, 2)), FAdd(pair(0, 3), pair(1, 2))),
                 FAdd(pair(1, 3), pair(2, 3))),
            FAdd(FAdd(prod(0, 0), prod(1, 1)), FAdd(prod(2, 2), prod(3, 3))))

\* C28: contract sums all 16 products g[mu][nu]*p[mu]*p[nu], and the seven-term
\* hamiltonian equals 0.5 * contravariant(r, theta).contract(p) for every
\* library metric and every state
C28_HamiltonianIsHalfContract ==
    /\ answer.contract # << >> => answer.contract[1] = SixteenProducts
    /\ (answer.hamiltonian # << >> /\ answer.contract # << >>)
          => answer.hamiltonian[1] = answer.contract[1]

\* C28, up to rounding: contract sums all 16 products, each mirrored pair
\* twice; for number momenta the seven-term hamiltonian and 0.5 * contract are
\* both numbers or both NaN, and differ by at most one unit
C28_HamiltonianNearHalfContract ==
    /\ answer.contract # << >> => answer.contract[1] = SixteenProducts
    /\ (answer.hamiltonian # << >> /\ answer.contract # << >>
            /\ \A nu \in 0..3 : ~IsNaN(initial.p[nu]))
          => /\ IsNaN(answer.hamiltonian[1]) <=> IsNaN(answer.contract[1])
             /\ ~IsNaN(answer.hamiltonian[1])
                   => Abs(answer.hamiltonian[1] - answer.contract[1]) <= 1

\* a Kerr-Schild state with all three cross terms at work where the two
\* Hamiltonians differ by a rounding
C28_Witness ==
    /\ metric.chart = "KerrSchild" /\ metric.spin = 900
    /\ initial.p = Momentum(-83, 45, One, -83)
    /\ answer.hamiltonian # << >> /\ answer.contract # << >>
    /\ ~IsNaN(answer.hamiltonian[1])
    /\ answer.hamiltonian[1] # answer.contract[1]
    /\ Abs(answer.hamiltonian[1] - answer.contract[1]) <= 1

\* The Leibniz determinant of a matrix whose entries are whole halves: the sum
\* over the 24 permutations s of sign(s) * m[0][s0] * m[1][s1] * m[2][s2] * m[3][s3],
\* in exact integers on the entries counted in halves, converted to the unit
Permutations4 == {s \in [0..3 -> 0..3] : \A i, j \in 0..3 : i # j => s[i] # s[j]}

Sign(s) ==
    IF Cardinality({ij \in (0..3) \X (0..3) : ij[1] < ij[2] /\ s[ij[1]] > s[ij[2]]}) % 2 = 0
    THEN 1 ELSE -1

RECURSIVE LeibnizSum(_, _)
LeibnizSum(e, perms) ==
    IF perms = {} THEN 0
    ELSE LET s == CHOOSE f \in perms : TRUE
         IN Sign(s) * e[s[0]] * e[4 + s[1]] * e[8 + s[2]] * e[12 + s[3]]
              + LeibnizSum(e, perms \ {s})

Leibniz(m) ==
    LET half == One \div 2
        e == [i \in 0..15 |-> m[i] \div half]
    IN (LeibnizSum(e, Permutations4) * One) \div (2 * 2 * 2 * 2)

Product4(a, b, c, d) ==
    LET half == One \div 2
    IN ((a \div half) * (b \div half) * (c \div half) * (d \div half) * One) \div (2 * 2 * 2 * 2)

\* C29: determinant returns the Leibniz determinant of the stored matrix,
\* symmetric or not; a tensor built by diagonal(a, b, c, d) has zero
\* off-diagonal components and determinant a*b*c*d, -1 for diag(-1, 1, 1, 1)
C29_DeterminantIsLeibniz ==
    /\ answer.determinant # << >> => answer.determinant[1] = Leibniz(answer.tensor[1])
    /\ (answer.tensor # << >> /\ probe.kind = "diagonal")
          => /\ \A i \in 0..15 : i \notin {0, 5, 10, 15} => answer.tensor[1][i] = 0
             /\ answer.tensor[1][0] = probe.args[0] /\ answer.tensor[1][5] = probe.args[1]
             /\ answer.tensor[1][10] = probe.args[2] /\ answer.tensor[1][15] = probe.args[3]
    /\ (answer.determinant # << >> /\ probe.kind = "diagonal")
          => /\ answer.determinant[1]
                  = Product4(probe.args[0], probe.args[1], probe.args[2], probe.args[3])
             /\ probe.args = Momentum(-One, One, One, One) => answer.determinant[1] = -One
    /\ (answer.tensor # << >> /\ probe.kind = "from_array")
          => answer.tensor[1] = probe.args

\* the determinant of an array that is not symmetric, has no zero in its first
\* row and is not singular
C29_Witness ==
    /\ probe.kind = "from_array"
    /\ answer.determinant # << >>
    /\ \E i, j \in 0..3 : answer.tensor[1][4 * i + j] # answer.tensor[1][4 * j + i]
    /\ \A j \in 0..3 : answer.tensor[1][j] # 0
    /\ answer.determinant[1] \notin {0, NaN}
    /\ answer.determinant[1] = Leibniz(answer.tensor[1])

\* C30: the recorded path is present if and only if record_path is true; when
\* present its length is steps_taken + 1 and its first entry is the caller's
\* initial state as passed in, before the initial renormalization; entry k
\* (k >= 1) is the state after step k including that step's renormalization if
\* any, and is never rewritten; whenever steps_taken >= 1 the last entry of the
\* returned path equals final_state
C30_RecordedPath ==
    /\ [](pc # "call"
            => /\ path.some <=> options.record_path
               /\ path.some => Len(path.v) = steps + 1 /\ path.v[1] = initial)
    /\ [](pc = "returned"
            => /\ traj[1].path.some <=> options.record_path
               /\ traj[1].path.some
                     => /\ Len(traj[1].path.v) = traj[1].steps_taken + 1
                        /\ traj[1].path.v[1] = initial
                        /\ traj[1].steps_taken >= 1
                              => traj[1].path.v[traj[1].steps_taken + 1] = traj[1].final_state)
    /\ [][pc # "call"
            => IF steps' = steps + 1
               THEN LET after_step ==
                            IF RenormalizeDue(steps, options.renormalize_interval)
                            THEN renormalize_null(state, metric) ELSE state
                    IN path.some => path'.v = Append(path.v, after_step)
               ELSE path' = path]_vars

\* a returned path of three entries whose first entry is the initial state,
\* which the initial renormalization changed
C30_Witness ==
    /\ pc = "returned" /\ options.record_path
    /\ traj[1].steps_taken = 2
    /\ Len(traj[1].path.v) = 3
    /\ traj[1].path.v[1] = initial
    /\ renormalize_null(initial, metric) # initial
    /\ traj[1].path.v[3] = traj[1].final_state
    /\ traj[1].path.v[2] # traj[1].path.v[3]

====
